---------------------------- MODULE Spec2Model ----------------------------
(***************************************************************************)
(* Model of src/app.py: the multi-database MCP server.                     *)
(*                                                                         *)
(*   DatabaseAgent      keyword / table-name / column-name classifier and  *)
(*                      the table-list cache                               *)
(*   MultiDatabaseMCP   connect_to_database, execute_sql, natural_to_sql,  *)
(*                      handle_cross_database_query and its helpers        *)
(*                                                                         *)
(* Text is modelled by TLA+ strings; Python's `in`, str.lower and          *)
(* str.replace are computed character by character.  The MySQL servers    *)
(* are the environment: the tables and columns they hold, whether a        *)
(* connect succeeds, whether a statement raises and the rows it returns    *)
(* are inputs of the actions.                                              *)
(***************************************************************************)
EXTENDS Integers, Sequences, FiniteSets, TLC

VARIABLES
    pc,                \* "constructed", "serving" or "stopped"
    connections,       \* MultiDatabaseMCP.connections: source -> is_connected()
    all_tables_cache,  \* DatabaseAgent.all_tables_cache: source -> table list
    schema,            \* the tables each server holds
    last               \* the last operation and what it returned

vars == <<pc, connections, all_tables_cache, schema, last>>

-----------------------------------------------------------------------------
(* Lists *)

\* Python's None where a text value is expected
NoneVal == "<None>"

\* the first n elements of a list: lst[:n]
Prefix(lst, n) == SubSeq(lst, 1, IF Len(lst) < n THEN Len(lst) ELSE n)

SeqToSet(s) == {s[i] : i \in 1..Len(s)}

Max2(a, b) == IF a >= b THEN a ELSE b

\* A dict with one entry per key of DB_CONFIGS: {db: f[db] for db in DB_CONFIGS}
PerDb(f) ==
    [school_erp |-> f["school_erp"], chinook |-> f["chinook"], sakila |-> f["sakila"]]

\* The empty dict
EmptyDict == << >>


\* dict[key] = value
Put(dict, key, value) == (key :> value) @@ dict

-----------------------------------------------------------------------------
(* Static configuration *)

\* DB_CONFIGS.keys(), in insertion order
DbOrder == <<"school_erp", "chinook", "sakila">>

DbNames == SeqToSet(DbOrder)

\* DB_CONFIGS[db]['description']
Description(db) ==
    CASE db = "school_erp" ->
           "School Management System - students, teachers, classes, fees, attendance, marks, library"
      [] db = "chinook" ->
           "Music Store - albums, artists, tracks, customers, invoices, playlists"
      [] db = "sakila" ->
           "Movie Rental - films, actors, customers, rentals, inventory, categories"

\* DatabaseAgent.database_keywords: lists, in source order ('actor' is
\* listed twice for sakila)
database_keywords(db) ==
    CASE db = "school_erp" ->
           << "student", "teacher", "class", "school", "fee", "payment", "attendance",
              "marks", "exam", "grade", "enrollment", "library", "book issue", "staff",
              "subject", "assignment", "announcement", "academic", "session", "roll",
              "admission", "principal", "hostel", "uniform" >>
      [] db = "chinook" ->
           << "music", "album", "artist", "track", "song", "playlist", "genre",
              "customer", "invoice", "purchase", "employee", "media", "composer",
              "billing", "sale" >>
      [] db = "sakila" ->
           << "film", "movie", "actor", "rental", "dvd", "store", "inventory",
              "category", "language", "address", "city", "country", "payment",
              "cinema", "video", "actor", "actress" >>


-----------------------------------------------------------------------------
(* The environment: the MySQL servers behind mysql.connector *)

\* The tables each server holds when the process starts, as SHOW TABLES
\* lists them (the server's own spelling).
InitialSchema(db) ==
    CASE db = "school_erp" -> << "sms_students", "timetable" >>
      [] db = "chinook"    -> << "Album", "Lyrics", "notes" >>
      [] db = "sakila"     -> << "film", "reviews", "notes" >>

\* The tables after a schema change on that server: school_erp gains a
\* table, chinook and sakila lose one.
AlteredSchema(db) ==
    CASE db = "school_erp" -> << "sms_students", "timetable", "holidays" >>
      [] db = "chinook"    -> << "Album", "notes" >>
      [] db = "sakila"     -> << "film", "notes" >>

\* The lowercased names of the tables of the two schemas
TableNames ==
    { "sms_students", "timetable", "holidays", "album", "lyrics", "reviews",
      "film", "notes" }

\* The Field values DESCRIBE <table> returns
Columns(db, table) ==
    CASE table = "sms_students" -> << "id", "admission_no", "name", "email" >>
      [] table = "timetable"    -> << "id", "period_id", "Room_Name", "weekday" >>
      [] table = "holidays"     -> << "id", "weekday", "occasion" >>
      [] table = "album"        -> << "AlbumId", "Title", "ArtistId" >>
      [] table = "lyrics"       -> << "lyrics_id", "verse", "title" >>
      [] table = "reviews"      -> << "review_id", "film_id", "rating", "body" >>
      [] table = "film"         -> << "film_id", "title", "rating" >>
      [] table = "notes"        -> IF db = "chinook" THEN << "note_id", "body" >>
                                   ELSE << "note_id", "body", "verse_no" >>
      [] table = "sms_classes"  -> << "class_id", "pupil_ids", "room_name" >>
      [] table = "sms_rooms"    -> << "room_id", "floor", "occasion" >>
      [] table = "sms_hostels"  -> << "hostel_id", "warden", "occasion" >>
      [] table \in { "sms_sections", "sms_teachers", "sms_subjects", "sms_fees",
                     "sms_exams", "sms_marks" }
                                -> << "id", "code" >>
      [] OTHER                  -> << >>

-----------------------------------------------------------------------------
(* Inputs of the operations *)

\* Questions put to detect_database
Questions ==
    { "hello there",
      "List all STUDENTS in each class",
            "customer payment",
      "top actor",
      "open the Timetable",
      "read my notes",
      "find lyrics and notes",
      "which weekday",
      "weekday verse",
      "what is the title" }

-----------------------------------------------------------------------------
(* Python text primitives.  Each is defined character by character; the     *)
(* values over the texts of this model are tabulated once, and the         *)
(* primitive reads the table where it has the entry.                       *)

\* `sub in s` for str operands
Find(sub, s) ==
    \E i \in 0..(Len(s) - Len(sub)) : SubSeq(s, i + 1, i + Len(sub)) = sub

\* The characters str.lower() changes, of those a string of this module can
\* hold (code points 1 to 255), and what it makes of them: A to Z and the
\* capitals U+00C0 to U+00DE without the sign U+00D7
UpperLetters == "ABCDEFGHIJKLMNOPQRSTUVWXYZÀÁÂÃÄÅÆÇÈÉÊËÌÍÎÏÐÑÒÓÔÕÖØÙÚÛÜÝÞ"
LowerLetters == "abcdefghijklmnopqrstuvwxyzàáâãäåæçèéêëìíîïðñòóôõöøùúûüýþ"

LowerChar(c) ==
    IF \E i \in 1..Len(UpperLetters) : SubSeq(UpperLetters, i, i) = c
    THEN LET i == CHOOSE j \in 1..Len(UpperLetters) : SubSeq(UpperLetters, j, j) = c
         IN  SubSeq(LowerLetters, i, i)
    ELSE c

RECURSIVE LowerOf(_)
\* str.lower()
LowerOf(s) ==
    IF Len(s) = 0 THEN s
    ELSE LowerChar(SubSeq(s, 1, 1)) \o LowerOf(SubSeq(s, 2, Len(s)))

RECURSIVE Remove(_, _)
\* s.replace(old, ''): every non-overlapping occurrence, scanning left to right
Remove(s, old) ==
    IF Len(s) < Len(old) THEN s
    ELSE IF SubSeq(s, 1, Len(old)) = old
         THEN Remove(SubSeq(s, Len(old) + 1, Len(s)), old)
         ELSE SubSeq(s, 1, 1) \o Remove(SubSeq(s, 2, Len(s)), old)

RECURSIVE Join(_, _)
\* sep.join(parts)
Join(sep, parts) ==
    IF Len(parts) = 0 THEN ""
    ELSE IF Len(parts) = 1 THEN parts[1]
         ELSE parts[1] \o sep \o Join(sep, Tail(parts))

\* The texts the operations lowercase
MixedCaseTexts ==
    Questions
    \cup UNION {SeqToSet(InitialSchema(db)) \cup SeqToSet(AlteredSchema(db)) : db \in DbNames}
    \cup UNION {SeqToSet(Columns(db, t)) : db \in DbNames, t \in TableNames}

LowerTable == [s \in MixedCaseTexts |-> LowerOf(s)] @@ EmptyDict

\* str.lower()
Lower(s) == IF s \in DOMAIN LowerTable THEN LowerTable[s] ELSE LowerOf(s)

\* clean_col = col_name.replace('_id', '').replace('_name', '')
CleanColOf(field) == Remove(Remove(Lower(field), "_id"), "_name")

ColumnFields == UNION {SeqToSet(Columns(db, t)) : db \in DbNames, t \in TableNames}

CleanColTable == [f \in ColumnFields |-> CleanColOf(f)] @@ EmptyDict

CleanCol(field) ==
    IF field \in DOMAIN CleanColTable THEN CleanColTable[field] ELSE CleanColOf(field)

\* The texts searched, and the texts searched for
Haystacks == {LowerTable[q] : q \in Questions}

Needles ==
    UNION {SeqToSet(database_keywords(db)) : db \in DbNames}
    \cup {LowerTable[t] : t \in UNION {SeqToSet(InitialSchema(db)) \cup SeqToSet(AlteredSchema(db)) : db \in DbNames}}
    \cup {CleanCol(f) : f \in UNION {SeqToSet(Columns(db, t)) : db \in DbNames, t \in TableNames}}

FindTable == [p \in Needles \X Haystacks |-> Find(p[1], p[2])] @@ EmptyDict

\* `sub in s` for str operands
Contains(sub, s) ==
    IF <<sub, s>> \in DOMAIN FindTable THEN FindTable[<<sub, s>>] ELSE Find(sub, s)

-----------------------------------------------------------------------------
(* Collaborator calls *)

\* connection.is_connected() for an entry of self.connections
IsConnected(db, conns) == db \in DOMAIN conns /\ conns[db]

\* cursor.execute("SHOW TABLES"); [table[0].lower() for table in fetchall()]
ShowTables(db, sch) == [i \in 1..Len(sch[db]) |-> Lower(sch[db][i])]

\* cursor.execute(f"DESCRIBE {table}") raises when the server no longer
\* holds the table, or when the environment fails the statement
DescribeRaises(db, table, sch, descFail) ==
    db \in descFail \/ table \notin SeqToSet(ShowTables(db, sch))

-----------------------------------------------------------------------------
(* Faulty variants of the program's definitions.  A property of the program *)
(* that is worth stating fails on the corresponding variant.                *)

\* max(scores.values()) that overlooks the last source
MaxScoreOfFirstTwo(scores) == Max2(scores["school_erp"], scores["chinook"])

\* a tie list that names every source
EverySource(scores) == DbOrder

\* a suggestion that names only the first source
DescribeFirstSource(dbs) == dbs[1] \o " (" \o Description(dbs[1]) \o ")"

\* a column phase that does not look at the scores
AlwaysRun(scores) == TRUE

\* a confidence of 100 * s / (s + 2)
ConfidenceOverTwo(max_score) == << 100 * max_score, max_score + 2 >>

\* a table match that weighs like a keyword
KeywordWeight == 2 - 1

-----------------------------------------------------------------------------
(* DatabaseAgent *)

\* Weight of a table-name match
TableWeight == 5

\* search_in_columns describes tables[:10]
ColumnTableLimit == 10

\* Confidence of a tie
TieConfidence == 50

\* Faulty variant: a get_all_tables that caches the empty list of a failed
\* fetch
CacheFailedFetch(db, conns, cache, sch, showFail) ==
    IF db \in DOMAIN cache
    THEN [tables |-> cache[db], cache |-> cache, asked |-> FALSE]
    ELSE IF IsConnected(db, conns) /\ db \notin showFail
         THEN [tables |-> ShowTables(db, sch),
               cache  |-> Put(cache, db, ShowTables(db, sch)),
               asked  |-> TRUE]
         ELSE [tables |-> << >>, cache |-> Put(cache, db, << >>),
               asked  |-> IsConnected(db, conns)]

\* Faulty variant: a get_all_tables that asks a connected server again and
\* overwrites the cached list
RefetchWhenConnected(db, conns, cache, sch, showFail) ==
    IF IsConnected(db, conns) /\ db \notin showFail
    THEN [tables |-> ShowTables(db, sch),
          cache  |-> Put(cache, db, ShowTables(db, sch)),
          asked  |-> TRUE]
    ELSE IF db \in DOMAIN cache
         THEN [tables |-> cache[db], cache |-> cache, asked |-> FALSE]
         ELSE [tables |-> << >>, cache |-> cache, asked |-> IsConnected(db, conns)]

\* get_all_tables: the list returned, the cache afterwards, and whether
\* SHOW TABLES was sent to the server
get_all_tables(db, conns, cache, sch, showFail) ==
    IF db \in DOMAIN cache
    THEN [tables |-> cache[db], cache |-> cache, asked |-> FALSE]
    ELSE IF IsConnected(db, conns)
         THEN IF db \in showFail
              THEN [tables |-> << >>, cache |-> cache, asked |-> TRUE]
              ELSE [tables |-> ShowTables(db, sch),
                    cache  |-> Put(cache, db, ShowTables(db, sch)),
                    asked  |-> TRUE]
         ELSE [tables |-> << >>, cache |-> cache, asked |-> FALSE]

\* Phase 1, one source: the keywords of the list found in the question, in
\* list order (matched_keywords[db_name]); the score is their number
KeywordMatchesOf(db, question_lower) ==
    SelectSeq(database_keywords(db), LAMBDA keyword : Contains(keyword, question_lower))

KeywordMatchesTable ==
    [p \in DbNames \X Haystacks |-> KeywordMatchesOf(p[1], p[2])] @@ EmptyDict

KeywordMatches(db, question_lower) ==
    IF <<db, question_lower>> \in DOMAIN KeywordMatchesTable
    THEN KeywordMatchesTable[<<db, question_lower>>]
    ELSE KeywordMatchesOf(db, question_lower)

\* Phase 2, one source: the tables of the list found in the question
TableMatches(tables, question_lower) ==
    SelectSeq(tables, LAMBDA table : Contains(table, question_lower))

\* the test of one column in search_in_columns
ColumnMatches(field, question) ==
    Contains(CleanCol(field), question) /\ Len(CleanCol(field)) > 3

\* the columns of one described table that add 1 to the score
ColumnHits(db, table, question) ==
    Len(SelectSeq(Columns(db, table), LAMBDA field : ColumnMatches(field, question)))

RECURSIVE ColumnScan(_, _, _, _, _, _)
\* search_in_columns, the loop over tables[:10] of one source from position
\* i: the score added and the tables DESCRIBE was sent for.  A raising
\* DESCRIBE ends the source's loop (the except clause of the source) and
\* keeps what was counted before it.
ColumnScan(db, tables, i, question, sch, descFail) ==
    IF i > Len(tables) THEN [score |-> 0, described |-> << >>]
    ELSE IF DescribeRaises(db, tables[i], sch, descFail)
         THEN [score |-> 0, described |-> << tables[i] >>]
         ELSE LET rest == ColumnScan(db, tables, i + 1, question, sch, descFail)
              IN  [score     |-> ColumnHits(db, tables[i], question) + rest.score,
                   described |-> << tables[i] >> \o rest.described]

\* search_in_columns for one source: skipped when the source is not
\* connected, else get_all_tables and the scan of its first tables
SearchColumnsOf(db, question, conns, cache, sch, env) ==
    IF ~IsConnected(db, conns)
    THEN [score |-> 0, described |-> << >>, cache |-> cache, asked |-> FALSE]
    ELSE LET g    == get_all_tables(db, conns, cache, sch, env.show3)
             scan == ColumnScan(db, Prefix(g.tables, ColumnTableLimit), 1,
                                question, sch, env.descFail)
         IN  [score |-> scan.score, described |-> scan.described,
              cache |-> g.cache, asked |-> g.asked]

\* The cache after each source's own get_all_tables call: a call touches
\* only the entry of its source
MergeCache(cache, byDb) ==
    cache @@ byDb["school_erp"].cache @@ byDb["chinook"].cache @@ byDb["sakila"].cache

MaxScore(scores) ==
    Max2(scores["school_erp"], Max2(scores["chinook"], scores["sakila"]))

\* [db for db, score in scores.items() if score == max_score]
TopDatabases(scores) == SelectSeq(DbOrder, LAMBDA db : scores[db] = MaxScore(scores))

\* f"{db} ({DB_CONFIGS[db]['description']})" for each db, joined by ', '
DescribeSources(dbs) ==
    Join(", ", [i \in 1..Len(dbs) |-> dbs[i] \o " (" \o Description(dbs[i]) \o ")"])

\* min(100, (max_score / (max_score + 1)) * 100), as the exact fraction
\* <<numerator, denominator>>
Confidence(max_score) ==
    IF 100 * max_score > 100 * (max_score + 1)
    THEN << 100, 1 >>
    ELSE << 100 * max_score, max_score + 1 >>


\* Phase 2 runs when the keyword phase left max_score at 0
RunTablePhase(scores) == MaxScore(scores) = 0

\* Phase 3 runs when max_score is still 0 after the table-name phase
RunColumnPhase(scores) == MaxScore(scores) = 0

\* The record returned when max_score == 0
UnresolvedResult(scores) ==
    [database   |-> NoneVal,
     confidence |-> << 0, 1 >>,
     reasoning  |-> "Could not determine database from question",
     suggestion |-> "Please specify or ask about: " \o DescribeSources(DbOrder),
     scores     |-> scores]

\* The record returned for a tie
AmbiguousResult(scores, top_databases) ==
    [database       |-> NoneVal,
     confidence     |-> << TieConfidence, 1 >>,
     reasoning      |-> "Ambiguous query matches multiple databases: "
                          \o Join(", ", top_databases),
     suggestion     |-> "Please clarify if you want data from: "
                          \o DescribeSources(top_databases),
     scores         |-> scores,
     tied_databases |-> top_databases]

\* The record returned for a clear winner
ResolvedResult(scores, top_databases, matched_keywords) ==
    [database    |-> top_databases[1],
     confidence  |-> Confidence(MaxScore(scores)),
     reasoning   |-> "Matched keywords/patterns: "
                       \o Join(", ", Prefix(matched_keywords[top_databases[1]], 5)),
     scores      |-> scores,
     all_matches |-> matched_keywords]

\* The end of detect_database: the three-way decision on the final scores
Resolve(scores, matched_keywords) ==
    IF MaxScore(scores) = 0 THEN UnresolvedResult(scores)
    ELSE IF Len(TopDatabases(scores)) > 1
         THEN AmbiguousResult(scores, TopDatabases(scores))
         ELSE ResolvedResult(scores, TopDatabases(scores), matched_keywords)

\* Phase 1 for every source: matched_keywords and scores after the keyword
\* loop (lines 116-121)
KeywordResult(question_lower, kw) ==
    [question_lower |-> question_lower,
     kw             |-> kw,
     scores1        |-> PerDb([db \in DbNames |-> Len(kw[db])])]

KeywordStage(question_lower) ==
    KeywordResult(question_lower,
                  PerDb([db \in DbNames |-> KeywordMatches(db, question_lower)]))

\* Phase 2 for one source: its table list and the names found in the question
TableLookupResult(g, question_lower) ==
    [tables |-> g.tables, cache |-> g.cache, asked |-> g.asked,
     matches |-> TableMatches(g.tables, question_lower)]

TableLookup(db, phase2, question_lower, conns, cache, sch, showFail) ==
    IF phase2
    THEN TableLookupResult(get_all_tables(db, conns, cache, sch, showFail),
                           question_lower)
    ELSE [tables |-> << >>, cache |-> cache, asked |-> FALSE, matches |-> << >>]

\* Phase 2 for every source (lines 123-135)
TableResult(p, cache, t2) ==
    [question_lower |-> p.question_lower,
     kw             |-> p.kw,
     scores1        |-> p.scores1,
     phase2         |-> RunTablePhase(p.scores1),
     t2             |-> t2,
     scores2        |-> PerDb([db \in DbNames |->
                            p.scores1[db] + TableWeight * Len(t2[db].matches)]),
     cache2         |-> MergeCache(cache, t2)]

TableStage(p, conns, cache, sch, showFail) ==
    TableResult(p, cache,
                PerDb([db \in DbNames |->
                    TableLookup(db, RunTablePhase(p.scores1), p.question_lower,
                                conns, cache, sch, showFail)]))

\* Phase 3 for every source (lines 137-147)
ColumnResult(p, c3) ==
    [kw      |-> p.kw,
     scores1 |-> p.scores1,
     phase2  |-> p.phase2,
     t2      |-> p.t2,
     c3      |-> c3,
     scores3 |-> PerDb([db \in DbNames |-> p.scores2[db] + c3[db].score]),
     cache3  |-> MergeCache(p.cache2, c3)]

ColumnStage(p, conns, sch, env) ==
    ColumnResult(p,
                 PerDb([db \in DbNames |->
                    IF RunColumnPhase(p.scores2)
                    THEN SearchColumnsOf(db, p.question_lower, conns, p.cache2,
                                         sch, env)
                    ELSE [score |-> 0, described |-> << >>, cache |-> p.cache2,
                          asked |-> FALSE]]))

\* matched_keywords after the three phases: the keywords, then
\* f"table:{table}" per table match, then f"column_matches:{col_score}"
MatchedKeywords(p) ==
    PerDb([db \in DbNames |->
        p.kw[db]
        \o [i \in 1..Len(p.t2[db].matches) |-> "table:" \o p.t2[db].matches[i]]
        \o (IF p.c3[db].score > 0
            THEN << "column_matches:" \o ToString(p.c3[db].score) >>
            ELSE << >>)])

\* The decision, the cache afterwards and what the call asked of its
\* collaborators
Decide(p) ==
    [result  |-> Resolve(p.scores3, MatchedKeywords(p)),
     cache   |-> p.cache3,
     lookups |->
        [keyword_scores |-> p.scores1,
         table_scores   |-> PerDb([db \in DbNames |-> TableWeight * Len(p.t2[db].matches)]),
         column_scores  |-> PerDb([db \in DbNames |-> p.c3[db].score]),
         table_lists    |-> PerDb([db \in DbNames |-> p.t2[db].tables]),
         consulted      |-> IF p.phase2 THEN DbNames ELSE {},
         show_sent2     |-> {db \in DbNames : p.t2[db].asked},
         show_sent3     |-> {db \in DbNames : p.c3[db].asked},
         described      |-> PerDb([db \in DbNames |-> p.c3[db].described])]]

\* detect_database(question) in a given state of the connections, the cache
\* and the servers.  env.show2 / env.show3: the sources whose SHOW TABLES
\* raises in the table / column phase; env.descFail: the sources whose
\* DESCRIBE raises.  Returns the result, the cache afterwards and what the
\* call asked of its collaborators.
detect_database(question, conns, cache, sch, env) ==
    Decide(ColumnStage(TableStage(KeywordStage(Lower(question)),
                                  conns, cache, sch, env.show2),
                       conns, sch, env))

-----------------------------------------------------------------------------
(* MultiDatabaseMCP: connections and statement execution *)

\* self.connections[db_name] = mysql.connector.connect(**config)
ConnPut(conns, db) == Put(conns, db, TRUE)

\* connect_to_database(db_name); up: the servers that accept a connection.
\* DB_CONFIGS[db_name] raises KeyError for a name that is not configured,
\* and KeyError is not a mysql.connector.Error: it leaves the method.
connect_to_database(db, conns, up) ==
    IF IsConnected(db, conns)
    THEN [raised |-> FALSE, ok |-> TRUE, conns |-> conns]
    ELSE IF db \notin DbNames
         THEN [raised |-> TRUE, ok |-> FALSE, conns |-> conns]
         ELSE IF db \in up
              THEN [raised |-> FALSE, ok |-> TRUE, conns |-> ConnPut(conns, db)]
              ELSE [raised |-> FALSE, ok |-> FALSE, conns |-> conns]

\* The characters str.strip() removes, of those a string of this module can
\* hold (code points 1 to 255): space, \t, \n, \x0b, \f, \r, \x1c to \x1f,
\* \x85 and \xa0
WhiteSpace ==
    {" ", "\t", "\n", "", "\f", "\r", "", "", "", "", "", " "}

RECURSIVE LStrip(_)
\* the head of query.strip(): the text without its leading white space
LStrip(s) ==
    IF Len(s) > 0 /\ SubSeq(s, 1, 1) \in WhiteSpace
    THEN LStrip(SubSeq(s, 2, Len(s)))
    ELSE s

\* query.strip().upper().startswith('SELECT'); among the characters of this
\* module only the letters of SELECT, in either case, uppercase to them
IsSelect(query) ==
    LET q == LStrip(query)
    IN  Len(q) >= 6 /\ Lower(SubSeq(q, 1, 6)) = "select"

\* dict.get(key, default)
Get(dict, key, default) == IF key \in DOMAIN dict THEN dict[key] ELSE default

\* result.get("success")
Succeeded(result) == Get(result, "success", FALSE)

\* repr() of a str writes the backslash and the characters that do not print
\* as escapes; every other character of this module's strings is written as
\* it is
ReprEscapes ==
    "" :> "\\x01" @@ "" :> "\\x02" @@ "" :> "\\x03" @@ "" :> "\\x04" @@
    "" :> "\\x05" @@ "" :> "\\x06" @@ "" :> "\\x07" @@ "" :> "\\x08" @@
    "\t" :> "\\t" @@ "\n" :> "\\n" @@ "" :> "\\x0b" @@ "\f" :> "\\x0c" @@
    "\r" :> "\\r" @@ "" :> "\\x0e" @@ "" :> "\\x0f" @@ "" :> "\\x10" @@
    "" :> "\\x11" @@ "" :> "\\x12" @@ "" :> "\\x13" @@ "" :> "\\x14" @@
    "" :> "\\x15" @@ "" :> "\\x16" @@ "" :> "\\x17" @@ "" :> "\\x18" @@
    "" :> "\\x19" @@ "" :> "\\x1a" @@ "" :> "\\x1b" @@ "" :> "\\x1c" @@
    "" :> "\\x1d" @@ "" :> "\\x1e" @@ "" :> "\\x1f" @@ "" :> "\\x7f" @@
    "" :> "\\x80" @@ "" :> "\\x81" @@ "" :> "\\x82" @@ "" :> "\\x83" @@
    "" :> "\\x84" @@ "" :> "\\x85" @@ "" :> "\\x86" @@ "" :> "\\x87" @@
    "" :> "\\x88" @@ "" :> "\\x89" @@ "" :> "\\x8a" @@ "" :> "\\x8b" @@
    "" :> "\\x8c" @@ "" :> "\\x8d" @@ "" :> "\\x8e" @@ "" :> "\\x8f" @@
    "" :> "\\x90" @@ "" :> "\\x91" @@ "" :> "\\x92" @@ "" :> "\\x93" @@
    "" :> "\\x94" @@ "" :> "\\x95" @@ "" :> "\\x96" @@ "" :> "\\x97" @@
    "" :> "\\x98" @@ "" :> "\\x99" @@ "" :> "\\x9a" @@ "" :> "\\x9b" @@
    "" :> "\\x9c" @@ "" :> "\\x9d" @@ "" :> "\\x9e" @@ "" :> "\\x9f" @@
    " " :> "\\xa0" @@ "­" :> "\\xad" @@ "\\" :> "\\\\"

\* the quote repr() wraps a str in: the double quote when the text holds a
\* single quote and no double quote, the single quote otherwise
ReprQuote(s) == IF Find("'", s) /\ ~Find("\"", s) THEN "\"" ELSE "'"

RECURSIVE ReprBody(_, _)
\* the text between the quotes: the quote itself is written with a backslash
ReprBody(s, quote) ==
    IF Len(s) = 0 THEN s
    ELSE (IF SubSeq(s, 1, 1) = quote THEN "\\" \o quote
          ELSE Get(ReprEscapes, SubSeq(s, 1, 1), SubSeq(s, 1, 1)))
         \o ReprBody(SubSeq(s, 2, Len(s)), quote)

\* str(KeyError(db_name)) is repr(db_name): None for None, the quoted and
\* escaped text for a str
KeyErrorText(db_name) ==
    IF db_name = NoneVal THEN "None"
    ELSE ReprQuote(db_name) \o ReprBody(db_name, ReprQuote(db_name)) \o ReprQuote(db_name)

\* execute_sql(db_name, query).  env.up: the servers that accept a
\* connection; env.outcome[db]: what the server does with the statement,
\* [kind |-> "error", message] or [kind |-> "rows", rows, rowcount].
\* Returns whether the call raised, the result record, the connections
\* afterwards and the statements sent to the server; when it raised, the
\* text of the exception.  cursor.execute(query) comes before query.strip():
\* a query that is None is handed to the server, and the AttributeError of
\* None.strip() is caught by the except clause like the server's error.
execute_sql(db, query, conns, env) ==
    LET c == connect_to_database(db, conns, env.up)
    IN  IF c.raised
        THEN [raised |-> TRUE, message |-> KeyErrorText(db), result |-> EmptyDict,
              conns |-> c.conns, sent |-> << >>]
        ELSE IF ~c.ok
        THEN [raised |-> FALSE,
              result |-> [error |-> "Database connection failed for " \o db],
              conns  |-> c.conns, sent |-> << >>]
        ELSE IF env.outcome[db].kind = "error"
        THEN [raised |-> FALSE,
              result |-> [error |-> env.outcome[db].message, database |-> db],
              conns  |-> c.conns, sent |-> << <<db, query>> >>]
        ELSE IF query = NoneVal
        THEN [raised |-> FALSE,
              result |-> [error    |-> "'NoneType' object has no attribute 'strip'",
                          database |-> db],
              conns  |-> c.conns, sent |-> << <<db, query>> >>]
        ELSE IF IsSelect(query)
        THEN [raised |-> FALSE,
              result |-> [success   |-> TRUE,
                          database  |-> db,
                          data      |-> env.outcome[db].rows,
                          row_count |-> Len(env.outcome[db].rows)],
              conns  |-> c.conns, sent |-> << <<db, query>> >>]
        ELSE [raised |-> FALSE,
              result |-> [success       |-> TRUE,
                          database      |-> db,
                          rows_affected |-> env.outcome[db].rowcount],
              conns  |-> c.conns, sent |-> << <<db, query>> >>]

-----------------------------------------------------------------------------
(* MultiDatabaseMCP: the statement catalogs of natural_to_sql               *)

SchoolStudentsPerClass ==
    "\n"
    \o "                    SELECT cs.class_number, cs.section, \n"
    \o "                           COUNT(DISTINCT se.student_id) as student_count\n"
    \o "                    FROM sms_student_enrollments se\n"
    \o "                    JOIN sms_class_section cs ON se.class_section_id = cs.class_section_id\n"
    \o "                    WHERE se.status = 'active'\n"
    \o "                    GROUP BY cs.class_number, cs.section\n"
    \o "                    ORDER BY cs.class_number, cs.section\n"
    \o "                "

SchoolStudentCount ==
    "SELECT COUNT(*) as total_students FROM sms_students"

SchoolStudentList ==
    "\n"
    \o "                SELECT s.admission_no, s.name, s.gender, cs.class_number, cs.section, se.roll_no\n"
    \o "                FROM sms_students s\n"
    \o "                JOIN sms_student_enrollments se ON s.id = se.student_id\n"
    \o "                JOIN sms_class_section cs ON se.class_section_id = cs.class_section_id\n"
    \o "                WHERE se.status = 'active'\n"
    \o "                ORDER BY cs.class_number, cs.section, se.roll_no\n"
    \o "                LIMIT 50\n"
    \o "            "

SchoolTeachers ==
    "\n"
    \o "                SELECT staff_id, CONCAT(first_name, ' ', last_name) as name,\n"
    \o "                       role, department, phone, email\n"
    \o "                FROM sms_teachers\n"
    \o "                WHERE status = 'active'\n"
    \o "                ORDER BY first_name\n"
    \o "                LIMIT 50\n"
    \o "            "

SchoolPendingFees ==
    "\n"
    \o "                SELECT s.admission_no, s.name, cs.class_number, cs.section, \n"
    \o "                       fs.month, fs.total_amount\n"
    \o "                FROM sms_students s\n"
    \o "                JOIN sms_student_enrollments se ON s.id = se.student_id\n"
    \o "                JOIN sms_class_section cs ON se.class_section_id = cs.class_section_id\n"
    \o "                JOIN fee_structures fs ON cs.class_section_id = fs.class_section_id\n"
    \o "                LEFT JOIN fee_payments fp ON s.id = fp.student_id AND fs.month = fp.month\n"
    \o "                WHERE fp.id IS NULL AND se.status = 'active'\n"
    \o "                LIMIT 50\n"
    \o "            "

SchoolHelp ==
    "\n"
    \o "                SELECT 'school_erp School Database. Ask about: students, teachers, classes, \n"
    \o "                fees, attendance, marks, library' as info\n"
    \o "            "

ChinookAlbumsByArtist ==
    "\n"
    \o "                    SELECT ar.Name as Artist, al.Title as Album\n"
    \o "                    FROM album al\n"
    \o "                    JOIN artist ar ON al.ArtistId = ar.ArtistId\n"
    \o "                    ORDER BY ar.Name, al.Title\n"
    \o "                    LIMIT 50\n"
    \o "                "

ChinookAlbums ==
    "\n"
    \o "                    SELECT AlbumId, Title\n"
    \o "                    FROM album\n"
    \o "                    ORDER BY Title\n"
    \o "                    LIMIT 50\n"
    \o "                "

ChinookArtists ==
    "\n"
    \o "                SELECT ArtistId, Name\n"
    \o "                FROM artist\n"
    \o "                ORDER BY Name\n"
    \o "                LIMIT 50\n"
    \o "            "

ChinookTracks ==
    "\n"
    \o "                SELECT t.Name as Track, al.Title as Album, ar.Name as Artist\n"
    \o "                FROM track t\n"
    \o "                JOIN album al ON t.AlbumId = al.AlbumId\n"
    \o "                JOIN artist ar ON al.ArtistId = ar.ArtistId\n"
    \o "                ORDER BY t.Name\n"
    \o "                LIMIT 50\n"
    \o "            "

ChinookCustomers ==
    "\n"
    \o "                SELECT CustomerId, FirstName, LastName, Email, Country\n"
    \o "                FROM customer\n"
    \o "                ORDER BY LastName, FirstName\n"
    \o "                LIMIT 50\n"
    \o "            "

ChinookInvoices ==
    "\n"
    \o "                SELECT i.InvoiceId, c.FirstName, c.LastName, i.InvoiceDate, i.Total\n"
    \o "                FROM invoice i\n"
    \o "                JOIN customer c ON i.CustomerId = c.CustomerId\n"
    \o "                ORDER BY i.InvoiceDate DESC\n"
    \o "                LIMIT 50\n"
    \o "            "

ChinookPlaylists ==
    "\n"
    \o "                SELECT PlaylistId, Name\n"
    \o "                FROM playlist\n"
    \o "                ORDER BY Name\n"
    \o "                LIMIT 50\n"
    \o "            "

ChinookHelp ==
    "\n"
    \o "                SELECT 'Chinook Music Store Database. Ask about: albums, artists, tracks, \n"
    \o "                customers, invoices, playlists' as info\n"
    \o "            "

SakilaFilmActors ==
    "\n"
    \o "                    SELECT f.title, a.first_name, a.last_name\n"
    \o "                    FROM film f\n"
    \o "                    JOIN film_actor fa ON f.film_id = fa.film_id\n"
    \o "                    JOIN actor a ON fa.actor_id = a.actor_id\n"
    \o "                    ORDER BY f.title\n"
    \o "                    LIMIT 50\n"
    \o "                "

SakilaFilms ==
    "\n"
    \o "                    SELECT film_id, title, release_year, rating, length\n"
    \o "                    FROM film\n"
    \o "                    ORDER BY title\n"
    \o "                    LIMIT 50\n"
    \o "                "

SakilaActors ==
    "\n"
    \o "                SELECT actor_id, first_name, last_name\n"
    \o "                FROM actor\n"
    \o "                ORDER BY last_name, first_name\n"
    \o "                LIMIT 50\n"
    \o "            "

SakilaRentals ==
    "\n"
    \o "                SELECT r.rental_id, c.first_name, c.last_name, \n"
    \o "                       f.title, r.rental_date, r.return_date\n"
    \o "                FROM rental r\n"
    \o "                JOIN customer c ON r.customer_id = c.customer_id\n"
    \o "                JOIN inventory i ON r.inventory_id = i.inventory_id\n"
    \o "                JOIN film f ON i.film_id = f.film_id\n"
    \o "                ORDER BY r.rental_date DESC\n"
    \o "                LIMIT 50\n"
    \o "            "

SakilaCustomers ==
    "\n"
    \o "                SELECT customer_id, first_name, last_name, email, active\n"
    \o "                FROM customer\n"
    \o "                ORDER BY last_name, first_name\n"
    \o "                LIMIT 50\n"
    \o "            "

SakilaCategories ==
    "\n"
    \o "                SELECT category_id, name\n"
    \o "                FROM category\n"
    \o "                ORDER BY name\n"
    \o "            "

SakilaHelp ==
    "\n"
    \o "                SELECT 'Sakila Movie Rental Database. Ask about: films, actors, \n"
    \o "                customers, rentals, categories' as info\n"
    \o "            "

UnknownDatabaseStatement ==
    "SELECT 'Unknown database' as error"


\* Faulty variant: a school dispatch whose first guard is "students"
SchoolAnyStudents(q) ==
    IF Contains("students", q)
    THEN IF Contains("class", q) \/ Contains("section", q)
         THEN SchoolStudentsPerClass
         ELSE SchoolStudentCount
    ELSE IF Contains("teacher", q)
    THEN SchoolTeachers
    ELSE IF Contains("fee", q) /\ (Contains("pending", q) \/ Contains("unpaid", q))
    THEN SchoolPendingFees
    ELSE SchoolHelp

\* _school_erp_queries(q), q lowercased by the caller
_school_erp_queries(q) ==
    IF Contains("how many students", q)
    THEN IF Contains("class", q) \/ Contains("section", q)
         THEN SchoolStudentsPerClass
         ELSE SchoolStudentCount
    ELSE IF Contains("list students", q) \/ Contains("show students", q)
    THEN SchoolStudentList
    ELSE IF Contains("teacher", q)
    THEN SchoolTeachers
    ELSE IF Contains("fee", q) /\ (Contains("pending", q) \/ Contains("unpaid", q))
    THEN SchoolPendingFees
    ELSE SchoolHelp

\* a chinook dispatch that tests "artist" before "album"
ChinookArtistFirst(q) ==
    IF Contains("artist", q)
    THEN ChinookArtists
    ELSE IF Contains("album", q)
    THEN ChinookAlbums
    ELSE ChinookHelp

\* _chinook_queries(q)
_chinook_queries(q) ==
    IF Contains("album", q)
    THEN IF Contains("artist", q)
         THEN ChinookAlbumsByArtist
         ELSE ChinookAlbums
    ELSE IF Contains("artist", q)
    THEN ChinookArtists
    ELSE IF Contains("track", q) \/ Contains("song", q)
    THEN ChinookTracks
    ELSE IF Contains("customer", q)
    THEN ChinookCustomers
    ELSE IF Contains("invoice", q) \/ Contains("sale", q)
    THEN ChinookInvoices
    ELSE IF Contains("playlist", q)
    THEN ChinookPlaylists
    ELSE ChinookHelp

\* _sakila_queries(q)
_sakila_queries(q) ==
    IF Contains("film", q) \/ Contains("movie", q)
    THEN IF Contains("actor", q)
         THEN SakilaFilmActors
         ELSE SakilaFilms
    ELSE IF Contains("actor", q)
    THEN SakilaActors
    ELSE IF Contains("rental", q)
    THEN SakilaRentals
    ELSE IF Contains("customer", q)
    THEN SakilaCustomers
    ELSE IF Contains("category", q)
    THEN SakilaCategories
    ELSE SakilaHelp

\* the dispatch of natural_to_sql on the lowercased question
QueriesOf(db_name, q) ==
    IF db_name = "school_erp" THEN _school_erp_queries(q)
    ELSE IF db_name = "chinook" THEN _chinook_queries(q)
    ELSE IF db_name = "sakila" THEN _sakila_queries(q)
    ELSE UnknownDatabaseStatement

\* natural_to_sql(db_name, question)
natural_to_sql(db_name, question) == QueriesOf(db_name, Lower(question))

-----------------------------------------------------------------------------
(* MultiDatabaseMCP: the cross-database query                               *)

\* Optional[List[str]]: None, or a list
NoList == [is_none |-> TRUE]
SomeList(lst) == [is_none |-> FALSE, value |-> lst]

BroadWords == << "all", "compare", "across", "every", "total" >>

\* any(word in text for word in words)
AnyIn(words, text) == \E i \in 1..Len(words) : Contains(words[i], text)

\* a selection that keeps an empty list
KeepRelevant(relevant) == relevant

\* if not relevant: relevant = list(DB_CONFIGS.keys())
RelevantOrAll(relevant) == IF relevant = << >> THEN DbOrder ELSE relevant

\* the selection of _detect_relevant_databases on the lowercased query
RelevantDatabases(query_lower) ==
    IF AnyIn(BroadWords, query_lower)
    THEN DbOrder
    ELSE RelevantOrAll(SelectSeq(DbOrder,
            LAMBDA db_name : AnyIn(database_keywords(db_name), query_lower)))

\* _detect_relevant_databases(query)
_detect_relevant_databases(query) == RelevantDatabases(Lower(query))

CrossDefaultSchool ==
    "\n"
    \o "                SELECT 'Students' as entity, COUNT(*) as count FROM sms_students\n"
    \o "                UNION ALL\n"
    \o "                SELECT 'Teachers' as entity, COUNT(*) as count FROM sms_teachers\n"
    \o "            "

CrossDefaultChinook ==
    "\n"
    \o "                SELECT 'Artists' as entity, COUNT(*) as count FROM artist\n"
    \o "                UNION ALL\n"
    \o "                SELECT 'Albums' as entity, COUNT(*) as count FROM album\n"
    \o "                UNION ALL\n"
    \o "                SELECT 'Customers' as entity, COUNT(*) as count FROM customer\n"
    \o "            "

CrossDefaultSakila ==
    "\n"
    \o "                SELECT 'Films' as entity, COUNT(*) as count FROM film\n"
    \o "                UNION ALL\n"
    \o "                SELECT 'Actors' as entity, COUNT(*) as count FROM actor\n"
    \o "                UNION ALL\n"
    \o "                SELECT 'Customers' as entity, COUNT(*) as count FROM customer\n"
    \o "            "

\* the default statement of _generate_cross_db_query; a name that is not
\* configured falls off the end of the function, which returns None
CrossDefault(db_name) ==
    CASE db_name = "school_erp" -> CrossDefaultSchool
      [] db_name = "chinook"    -> CrossDefaultChinook
      [] db_name = "sakila"     -> CrossDefaultSakila
      [] OTHER                  -> NoneVal

CrossCustomerCount(db_name) ==
    CASE db_name = "school_erp" ->
            "SELECT 'School Students' as entity_type, COUNT(*) as count FROM sms_students"
      [] db_name = "chinook" ->
            "SELECT 'Music Customers' as entity_type, COUNT(*) as count FROM customer"
      [] db_name = "sakila" ->
            "SELECT 'Movie Customers' as entity_type, COUNT(*) as count FROM customer"
      [] OTHER -> CrossDefault(db_name)

CrossRevenue(db_name) ==
    CASE db_name = "school_erp" ->
            "SELECT 'School Fees' as source, SUM(amount_paid) as total_revenue FROM fee_payments"
      [] db_name = "chinook" ->
            "SELECT 'Music Sales' as source, SUM(Total) as total_revenue FROM invoice"
      [] db_name = "sakila" ->
            "SELECT 'Movie Rentals' as source, SUM(amount) as total_revenue FROM payment"
      [] OTHER -> CrossDefault(db_name)

CrossEmail(db_name) ==
    CASE db_name = "school_erp" ->
            "SELECT DISTINCT email, 'Student' as type FROM sms_students WHERE email IS NOT NULL LIMIT 100"
      [] db_name = "chinook" ->
            "SELECT DISTINCT Email as email, 'Music Customer' as type FROM customer WHERE Email IS NOT NULL LIMIT 100"
      [] db_name = "sakila" ->
            "SELECT DISTINCT email, 'Movie Customer' as type FROM customer WHERE email IS NOT NULL LIMIT 100"
      [] OTHER -> CrossDefault(db_name)

CrossStaff(db_name) ==
    CASE db_name = "school_erp" ->
            "SELECT staff_id as id, CONCAT(first_name, ' ', last_name) as name, role FROM sms_teachers WHERE status='active'"
      [] db_name = "chinook" ->
            "SELECT EmployeeId as id, CONCAT(FirstName, ' ', LastName) as name, Title as role FROM employee"
      [] db_name = "sakila" ->
            "SELECT staff_id as id, CONCAT(first_name, ' ', last_name) as name, 'Staff' as role FROM staff WHERE active=1"
      [] OTHER -> CrossDefault(db_name)

\* the branches of _generate_cross_db_query on the lowercased description
CrossStatement(db_name, q) ==
    IF Contains("customer", q) /\ Contains("count", q)
    THEN CrossCustomerCount(db_name)
    ELSE IF Contains("payment", q) \/ Contains("revenue", q)
    THEN CrossRevenue(db_name)
    ELSE IF Contains("email", q)
    THEN CrossEmail(db_name)
    ELSE IF Contains("employee", q) \/ Contains("staff", q)
    THEN CrossStaff(db_name)
    ELSE CrossDefault(db_name)

\* _generate_cross_db_query(db_name, query_description)
_generate_cross_db_query(db_name, query_description) ==
    CrossStatement(db_name, Lower(query_description))

\* Values of a row.  v of a float or decimal counts halves; v of a str is
\* its length.
IntValue(n) == [t |-> "int", v |-> n]
FloatValue(halves) == [t |-> "float", v |-> halves]
DecimalValue(halves) == [t |-> "decimal", v |-> halves]
StrValue(length) == [t |-> "str", v |-> length]
NullValue == [t |-> "null", v |-> 0]

\* isinstance(value, (int, float))
IsIntOrFloat(value) == value.t \in {"int", "float"}

\* the truth value of row[key]
Truthy(value) ==
    IF value.t = "null" THEN FALSE
    ELSE IF value.t = "str" THEN value.v > 0
    ELSE value.v # 0

\* float(value), in halves
FloatOf(value) == IF value.t = "int" THEN 2 * value.v ELSE value.v

\* analysis["totals"][key] += float(row[key])
Plus(total, value) == [t |-> "float", v |-> FloatOf(total) + FloatOf(value)]

RECURSIVE AddRows(_, _, _, _)
\* for row in data: if key in row and row[key]: totals[key] += float(row[key])
AddRows(total, data, key, i) ==
    IF i > Len(data) THEN total
    ELSE AddRows(IF key \in DOMAIN data[i] /\ Truthy(data[i][key])
                 THEN Plus(total, data[i][key]) ELSE total,
                 data, key, i + 1)

\* the keys of the first row that hold an int or a float
NumericKeys(first_row) == {key \in DOMAIN first_row : IsIntOrFloat(first_row[key])}

\* analysis["totals"] after the rows of one source
TotalsAfter(totals, data) ==
    [key \in NumericKeys(data[1]) |->
        AddRows(IF key \in DOMAIN totals THEN totals[key] ELSE IntValue(0),
                data, key, 1)] @@ totals

\* db_result.get("data") is a non-empty list
HasData(db_result) == "data" \in DOMAIN db_result /\ db_result.data # << >>

\* Faulty variant: an analysis that summarises every source it is given
SummariseEverySource(db_name, db_result, analysis) ==
    [summary    |-> Append(analysis.summary,
                      [database      |-> db_name,
                       records_found |-> Get(db_result, "row_count", 0),
                       description   |-> Description(db_name)]),
     totals     |-> IF HasData(db_result)
                    THEN TotalsAfter(analysis.totals, db_result.data)
                    ELSE analysis.totals,
     comparison |-> << >>]

\* one round of the loop of _analyze_cross_db_results
AnalyzeSource(db_name, db_result, analysis) ==
    IF HasData(db_result)
    THEN [summary    |-> Append(analysis.summary,
                            [database      |-> db_name,
                             records_found |-> Get(db_result, "row_count", 0),
                             description   |-> Description(db_name)]),
          totals     |-> TotalsAfter(analysis.totals, db_result.data),
          comparison |-> << >>]
    ELSE analysis

RECURSIVE AnalyzeLoop(_, _, _, _)
AnalyzeLoop(results, order, i, analysis) ==
    IF i > Len(order) THEN analysis
    ELSE AnalyzeLoop(results, order, i + 1,
                     AnalyzeSource(order[i], results[order[i]], analysis))

\* _analyze_cross_db_results(results, query_description); order: the keys
\* of results in insertion order
_analyze_cross_db_results(results, order) ==
    AnalyzeLoop(results, order, 1,
                [summary |-> << >>, totals |-> EmptyDict, comparison |-> << >>])

\* results[db_name] of handle_cross_database_query
CrossEntry(query, result) ==
    IF Succeeded(result)
    THEN [data      |-> Get(result, "data", << >>),
          row_count |-> Get(result, "row_count", 0),
          sql       |-> query]
    ELSE [error |-> Get(result, "error", NoneVal), sql |-> query]

\* one round of the loop, after execute_sql returned r or raised
CrossRecord(db_name, query, acc, r) ==
    IF r.raised
    THEN [raised |-> TRUE, message |-> r.message, results |-> acc.results,
          order |-> acc.order, conns |-> r.conns, sent |-> acc.sent]
    ELSE [raised  |-> FALSE,
          message |-> "",
          results |-> Put(acc.results, db_name, CrossEntry(query, r.result)),
          order   |-> IF db_name \in DOMAIN acc.results
                      THEN acc.order ELSE Append(acc.order, db_name),
          conns   |-> r.conns,
          sent    |-> acc.sent \o r.sent]

CrossStep(db_name, query, acc, env) ==
    CrossRecord(db_name, query, acc, execute_sql(db_name, query, acc.conns, env))

RECURSIVE CrossLoop(_, _, _, _, _)
\* for db_name in databases: ...; an exception leaves the loop.
\* _generate_cross_db_query starts with query_description.lower(), which
\* raises AttributeError for None before execute_sql is called.
CrossLoop(databases, i, query_description, acc, env) ==
    IF i > Len(databases) \/ acc.raised THEN acc
    ELSE IF query_description = NoneVal
    THEN [raised |-> TRUE, message |-> "'NoneType' object has no attribute 'lower'",
          results |-> acc.results, order |-> acc.order,
          conns |-> acc.conns, sent |-> acc.sent]
    ELSE CrossLoop(databases, i + 1, query_description,
                   CrossStep(databases[i],
                             _generate_cross_db_query(databases[i], query_description),
                             acc, env),
                   env)

\* the return value, or the exception, after the loop
CrossFinish(query_description, databases, acc) ==
    IF acc.raised
    THEN [raised |-> TRUE, message |-> acc.message, selected |-> databases,
          conns |-> acc.conns, sent |-> acc.sent]
    ELSE [raised   |-> FALSE,
          message  |-> "",
          selected |-> databases,
          conns    |-> acc.conns,
          sent     |-> acc.sent,
          result   |->
            [query_description  |-> query_description,
             databases_queried  |-> databases,
             individual_results |-> acc.results,
             combined_analysis  |-> _analyze_cross_db_results(acc.results, acc.order)]]

CrossRun(query_description, databases, conns, env) ==
    CrossFinish(query_description, databases,
                CrossLoop(databases, 1, query_description,
                          [raised |-> FALSE, message |-> "", results |-> EmptyDict,
                           order |-> << >>, conns |-> conns, sent |-> << >>],
                          env))

\* handle_cross_database_query(query_description, databases); without a
\* list, _detect_relevant_databases starts with query.lower(), which raises
\* AttributeError for None before any source is selected
handle_cross_database_query(query_description, databases, conns, env) ==
    IF databases.is_none /\ query_description = NoneVal
    THEN [raised |-> TRUE, message |-> "'NoneType' object has no attribute 'lower'",
          selected |-> << >>, conns |-> conns, sent |-> << >>]
    ELSE CrossRun(query_description,
                  IF databases.is_none
                  THEN _detect_relevant_databases(query_description)
                  ELSE databases.value,
                  conns, env)

\* what a server does with a statement: it returns rows, or an error
RowsOutcome(rows) == [kind |-> "rows", rows |-> rows, rowcount |-> Len(rows)]
ErrorOutcome == [kind |-> "error", message |-> "1146 (42S02): Table doesn't exist"]

-----------------------------------------------------------------------------
(* MultiDatabaseMCP: unified_search                                         *)

\* The loops below carry their state in acc; the test DOMAIN acc = {} is
\* never true and makes TLC evaluate the round just finished before it
\* starts the next one.

RECURSIVE EscapeQuotes(_)
\* search_term.replace("'", "''")
EscapeQuotes(s) ==
    IF Len(s) = 0 THEN ""
    ELSE (IF SubSeq(s, 1, 1) = "'" THEN "''" ELSE SubSeq(s, 1, 1))
         \o EscapeQuotes(SubSeq(s, 2, Len(s)))

\* school_erp, search_type name
SchoolNameSearch(search_term_safe) ==
    "\n"
    \o "                    SELECT 'Student' as type, name, email, admission_no as id \n"
    \o "                    FROM sms_students \n"
    \o "                    WHERE name LIKE '%"
    \o search_term_safe
    \o "%'\n"
    \o "                    UNION ALL\n"
    \o "                    SELECT 'Teacher' as type, CONCAT(first_name, ' ', last_name) as name, \n"
    \o "                           email, staff_id as id \n"
    \o "                    FROM sms_teachers \n"
    \o "                    WHERE first_name LIKE '%"
    \o search_term_safe
    \o "%' \n"
    \o "                       OR last_name LIKE '%"
    \o search_term_safe
    \o "%'\n"
    \o "                    LIMIT 50\n"
    \o "                "

\* school_erp, search_type email
SchoolEmailSearch(search_term_safe) ==
    "\n"
    \o "                    SELECT 'Student' as type, name, email, admission_no as id \n"
    \o "                    FROM sms_students \n"
    \o "                    WHERE email LIKE '%"
    \o search_term_safe
    \o "%'\n"
    \o "                    UNION ALL\n"
    \o "                    SELECT 'Teacher' as type, CONCAT(first_name, ' ', last_name) as name, \n"
    \o "                           email, staff_id as id \n"
    \o "                    FROM sms_teachers \n"
    \o "                    WHERE email LIKE '%"
    \o search_term_safe
    \o "%'\n"
    \o "                    LIMIT 50\n"
    \o "                "

\* chinook, search_type name
ChinookNameSearch(search_term_safe) ==
    "\n"
    \o "                    SELECT 'Artist' as type, Name as name, NULL as email, ArtistId as id \n"
    \o "                    FROM artist \n"
    \o "                    WHERE Name LIKE '%"
    \o search_term_safe
    \o "%'\n"
    \o "                    UNION ALL\n"
    \o "                    SELECT 'Customer' as type, CONCAT(FirstName, ' ', LastName) as name, \n"
    \o "                           Email as email, CustomerId as id \n"
    \o "                    FROM customer \n"
    \o "                    WHERE FirstName LIKE '%"
    \o search_term_safe
    \o "%' \n"
    \o "                       OR LastName LIKE '%"
    \o search_term_safe
    \o "%'\n"
    \o "                    LIMIT 50\n"
    \o "                "

\* chinook, search_type email
ChinookEmailSearch(search_term_safe) ==
    "\n"
    \o "                    SELECT 'Customer' as type, CONCAT(FirstName, ' ', LastName) as name, \n"
    \o "                           Email as email, CustomerId as id \n"
    \o "                    FROM customer \n"
    \o "                    WHERE Email LIKE '%"
    \o search_term_safe
    \o "%'\n"
    \o "                    LIMIT 50\n"
    \o "                "

\* chinook, search_type title
ChinookTitleSearch(search_term_safe) ==
    "\n"
    \o "                    SELECT 'Album' as type, Title as name, NULL as email, AlbumId as id \n"
    \o "                    FROM album \n"
    \o "                    WHERE Title LIKE '%"
    \o search_term_safe
    \o "%'\n"
    \o "                    UNION ALL\n"
    \o "                    SELECT 'Track' as type, Name as name, NULL as email, TrackId as id \n"
    \o "                    FROM track \n"
    \o "                    WHERE Name LIKE '%"
    \o search_term_safe
    \o "%'\n"
    \o "                    LIMIT 50\n"
    \o "                "

\* sakila, search_type name
SakilaNameSearch(search_term_safe) ==
    "\n"
    \o "                    SELECT 'Actor' as type, CONCAT(first_name, ' ', last_name) as name, \n"
    \o "                           NULL as email, actor_id as id \n"
    \o "                    FROM actor \n"
    \o "                    WHERE first_name LIKE '%"
    \o search_term_safe
    \o "%' \n"
    \o "                       OR last_name LIKE '%"
    \o search_term_safe
    \o "%'\n"
    \o "                    UNION ALL\n"
    \o "                    SELECT 'Customer' as type, CONCAT(first_name, ' ', last_name) as name, \n"
    \o "                           email, customer_id as id \n"
    \o "                    FROM customer \n"
    \o "                    WHERE first_name LIKE '%"
    \o search_term_safe
    \o "%' \n"
    \o "                       OR last_name LIKE '%"
    \o search_term_safe
    \o "%'\n"
    \o "                    LIMIT 50\n"
    \o "                "

\* sakila, search_type title
SakilaTitleSearch(search_term_safe) ==
    "\n"
    \o "                    SELECT 'Film' as type, title as name, NULL as email, film_id as id \n"
    \o "                    FROM film \n"
    \o "                    WHERE title LIKE '%"
    \o search_term_safe
    \o "%'\n"
    \o "                    LIMIT 50\n"
    \o "                "

\* the statement returned when no branch of _generate_search_query returns
NoResultsStatement == "SELECT 'No results' as message"

\* _generate_search_query: the branches of school_erp
SchoolSearch(search_type, search_term_safe) ==
    IF search_type \in {"name", "all"} THEN SchoolNameSearch(search_term_safe)
    ELSE IF search_type = "email" THEN SchoolEmailSearch(search_term_safe)
    ELSE NoResultsStatement

\* _generate_search_query: the branches of chinook
ChinookSearch(search_type, search_term_safe) ==
    IF search_type \in {"name", "all"} THEN ChinookNameSearch(search_term_safe)
    ELSE IF search_type = "email" THEN ChinookEmailSearch(search_term_safe)
    ELSE IF search_type = "title" THEN ChinookTitleSearch(search_term_safe)
    ELSE NoResultsStatement

\* _generate_search_query: the branches of sakila
SakilaSearch(search_type, search_term_safe) ==
    IF search_type \in {"name", "all"} THEN SakilaNameSearch(search_term_safe)
    ELSE IF search_type = "title" THEN SakilaTitleSearch(search_term_safe)
    ELSE NoResultsStatement

\* after search_term_safe is computed
SearchStatement(db_name, search_type, search_term_safe) ==
    CASE db_name = "school_erp" -> SchoolSearch(search_type, search_term_safe)
      [] db_name = "chinook"    -> ChinookSearch(search_type, search_term_safe)
      [] db_name = "sakila"     -> SakilaSearch(search_type, search_term_safe)
      [] OTHER                  -> NoResultsStatement

\* _generate_search_query(db_name, search_term, search_type)
_generate_search_query(db_name, search_term, search_type) ==
    SearchStatement(db_name, search_type, EscapeQuotes(search_term))

\* What a server that executes statements answers to cursor.execute(query):
\* the statement without a FROM clause yields its one constant row whatever
\* the tables hold; a lookup yields the rows the server found.
NoResultsRow == [message |-> StrValue(10)]

ServerAnswer(query, outcome) ==
    IF outcome.kind = "rows" /\ query = NoResultsStatement
    THEN RowsOutcome(<< NoResultsRow >>)
    ELSE outcome

\* execute_sql against servers that answer the statement
ExecuteOn(db_name, query, conns, env) ==
    execute_sql(db_name, query, conns,
                [up |-> env.up,
                 outcome |-> Put(env.outcome, db_name,
                                 ServerAnswer(query, env.outcome[db_name]))])

\* a test that keeps every source whose statement succeeded
KeepSucceeded(result) == Succeeded(result)

\* result.get("success") and result.get("row_count", 0) > 0
HasMatches(result) == Succeeded(result) /\ Get(result, "row_count", 0) > 0

\* results[db_name] of unified_search
SearchEntry(result) ==
    [matches |-> Get(result, "data", << >>), count |-> Get(result, "row_count", 0)]

\* one round of the loop, after execute_sql returned r
SearchRecord(db_name, acc, r) ==
    [results |-> IF HasMatches(r.result)
                 THEN Put(acc.results, db_name, SearchEntry(r.result))
                 ELSE acc.results,
     conns   |-> r.conns,
     sent    |-> acc.sent \o r.sent]

RECURSIVE SearchLoop(_, _, _, _, _)
\* for db_name in DB_CONFIGS.keys(): ...
SearchLoop(i, search_term, search_type, acc, env) ==
    IF i > Len(DbOrder) \/ DOMAIN acc = {} THEN acc
    ELSE SearchLoop(i + 1, search_term, search_type,
                    SearchRecord(DbOrder[i], acc,
                                 ExecuteOn(DbOrder[i],
                                           _generate_search_query(DbOrder[i], search_term, search_type),
                                           acc.conns, env)),
                    env)

RECURSIVE SumCounts(_, _)
\* sum(r.get("count", 0) for r in results.values()), from position i of the
\* insertion order
SumCounts(results, i) ==
    IF i > Len(DbOrder) THEN 0
    ELSE (IF DbOrder[i] \in DOMAIN results THEN Get(results[DbOrder[i]], "count", 0) ELSE 0)
         + SumCounts(results, i + 1)

\* the return value after the loop
SearchFinish(search_term, search_type, acc) ==
    [raised |-> FALSE,
     message |-> "",
     conns  |-> acc.conns,
     sent   |-> acc.sent,
     result |-> [search_term         |-> search_term,
                 search_type         |-> search_type,
                 total_matches       |-> SumCounts(acc.results, 1),
                 results_by_database |-> acc.results,
                 databases_searched  |-> DbOrder]]

\* unified_search(search_term, search_type).  _generate_search_query starts
\* with search_term.replace("'", "''"), which raises AttributeError for None
\* in the first round of the loop, before execute_sql is called.
unified_search(search_term, search_type, conns, env) ==
    IF search_term = NoneVal
    THEN [raised |-> TRUE, message |-> "'NoneType' object has no attribute 'replace'",
          conns |-> conns, sent |-> << >>, result |-> EmptyDict]
    ELSE SearchFinish(search_term, search_type,
                      SearchLoop(1, search_term, search_type,
                                 [results |-> EmptyDict, conns |-> conns, sent |-> << >>],
                                 env))

-----------------------------------------------------------------------------
(* MultiDatabaseMCP: aggregate_stats                                        *)

\* tables[:20]
CountTableLimit == 20

\* The servers during one aggregate_stats call.  env.up: the servers that
\* accept a connection; env.showFail: the servers that fail SHOW TABLES;
\* env.broken: the pairs <<source, table>> whose statements the server
\* rejects; env.rows: the number of rows the source's tables hold above the
\* length of their name.
RowCount(db_name, table, env) == Len(table) + env.rows[db_name]

\* the answer to a statement over one table with the given row
TableAnswer(db_name, table, row, env) ==
    IF <<db_name, table>> \in env.broken THEN ErrorOutcome ELSE RowsOutcome(<< row >>)

\* execute_sql of a statement over one table
ExecuteOver(db_name, query, table, row, conns, env) ==
    execute_sql(db_name, query, conns,
                [up |-> env.up,
                 outcome |-> (db_name :> TableAnswer(db_name, table, row, env))])

\* f"SELECT COUNT(*) as count FROM {table}"
CountStatement(table) == "SELECT COUNT(*) as count FROM " \o table

\* a tally over every table of the list
AllTables(tables) == tables

\* tables[:20]
FirstTables(tables) == Prefix(tables, CountTableLimit)

\* one round of the table loop, after execute_sql returned r:
\* count = result["data"][0]["count"]; db_stats[table] = count
CountRecord(table, acc, r) ==
    [db_stats |-> IF Succeeded(r.result) /\ Len(r.result.data) > 0
                  THEN Put(acc.db_stats, table, r.result.data[1].count.v)
                  ELSE acc.db_stats,
     conns    |-> r.conns,
     sent     |-> acc.sent \o r.sent]

RECURSIVE CountLoop(_, _, _, _, _)
\* for table in tables[:20]: ...
CountLoop(db_name, tables, i, acc, env) ==
    IF i > Len(tables) \/ DOMAIN acc = {} THEN acc
    ELSE CountLoop(db_name, tables, i + 1,
                   CountRecord(tables[i], acc,
                               ExecuteOver(db_name, CountStatement(tables[i]), tables[i],
                                           [count |-> IntValue(RowCount(db_name, tables[i], env))],
                                           acc.conns, env)),
                   env)

RECURSIVE SumValues(_, _)
\* sum(db_stats.values()) over the keys left
SumValues(dict, keys) ==
    IF keys = {} THEN 0
    ELSE LET k == CHOOSE x \in keys : TRUE
         IN  dict[k] + SumValues(dict, keys \ {k})

\* one round of the source loop of "total_records", after the table list g
\* was fetched and the tables were counted into c
TotalRecordsRecord(db_name, acc, g, c) ==
    [by_database |-> Put(acc.by_database, db_name, c.db_stats),
     totals      |-> Put(acc.totals, db_name, SumValues(c.db_stats, DOMAIN c.db_stats)),
     conns       |-> c.conns,
     cache       |-> g.cache,
     sent        |-> c.sent,
     asked       |-> IF g.asked THEN acc.asked \cup {db_name} ELSE acc.asked]

TotalRecordsCount(db_name, acc, g, env) ==
    TotalRecordsRecord(db_name, acc, g,
                       CountLoop(db_name, FirstTables(g.tables), 1,
                                 [db_stats |-> EmptyDict, conns |-> acc.conns, sent |-> acc.sent],
                                 env))

\* the servers as the count statements of one source meet them: a server
\* also rejects the statement over a listed table it no longer holds
CountEnv(db_name, g, sch, env) ==
    [env EXCEPT !.broken =
        @ \cup {<<db_name, t>> : t \in SeqToSet(g.tables) \ SeqToSet(ShowTables(db_name, sch))}]

TotalRecordsSource(db_name, acc, g, sch, env) ==
    TotalRecordsCount(db_name, acc, g, CountEnv(db_name, g, sch, env))

RECURSIVE TotalRecordsLoop(_, _, _, _)
\* metric == "total_records": for db_name in DB_CONFIGS.keys(): ...
TotalRecordsLoop(i, acc, sch, env) ==
    IF i > Len(DbOrder) \/ DOMAIN acc = {} THEN acc
    ELSE TotalRecordsLoop(i + 1,
                          TotalRecordsSource(DbOrder[i], acc,
                                             get_all_tables(DbOrder[i], acc.conns, acc.cache,
                                                            sch, env.showFail),
                                             sch, env),
                          sch, env)

\* the table counted for metric "customers"
CustomerTable(db_name) == IF db_name = "school_erp" THEN "sms_students" ELSE "customer"

\* one round of the source loop of "customers", after execute_sql returned r
CustomersRecord(db_name, acc, r) ==
    [by_database |-> IF Succeeded(r.result)
                     THEN Put(acc.by_database, db_name, r.result.data[1].count.v)
                     ELSE acc.by_database,
     totals      |-> acc.totals,
     conns       |-> r.conns,
     cache       |-> acc.cache,
     sent        |-> acc.sent \o r.sent,
     asked       |-> acc.asked]

RECURSIVE CustomersLoop(_, _, _)
\* metric == "customers": for db_name in DB_CONFIGS.keys(): ...
CustomersLoop(i, acc, env) ==
    IF i > Len(DbOrder) \/ DOMAIN acc = {} THEN acc
    ELSE CustomersLoop(i + 1,
            CustomersRecord(DbOrder[i], acc,
                ExecuteOver(DbOrder[i], CountStatement(CustomerTable(DbOrder[i])),
                            CustomerTable(DbOrder[i]),
                            [count |-> IntValue(RowCount(DbOrder[i], CustomerTable(DbOrder[i]), env))],
                            acc.conns, env)),
            env)

\* the table and the statement of metric "payments"
PaymentTable(db_name) ==
    CASE db_name = "school_erp" -> "fee_payments"
      [] db_name = "chinook"    -> "invoice"
      [] db_name = "sakila"     -> "payment"

PaymentStatement(db_name) ==
    CASE db_name = "school_erp" ->
            "SELECT COUNT(*) as count, SUM(amount_paid) as total FROM fee_payments"
      [] db_name = "chinook" ->
            "SELECT COUNT(*) as count, SUM(Total) as total FROM invoice"
      [] db_name = "sakila" ->
            "SELECT COUNT(*) as count, SUM(amount) as total FROM payment"

\* the row a server returns for it: the count and the DECIMAL sum
PaymentRow(db_name, env) ==
    [count |-> IntValue(RowCount(db_name, PaymentTable(db_name), env)),
     total |-> DecimalValue(2 * RowCount(db_name, PaymentTable(db_name), env) + 1)]

\* one round of the source loop of "payments", after execute_sql returned r
PaymentsRecord(db_name, acc, r) ==
    [by_database |-> IF Succeeded(r.result)
                     THEN Put(acc.by_database, db_name, r.result.data[1])
                     ELSE acc.by_database,
     totals      |-> acc.totals,
     conns       |-> r.conns,
     cache       |-> acc.cache,
     sent        |-> acc.sent \o r.sent,
     asked       |-> acc.asked]

RECURSIVE PaymentsLoop(_, _, _)
\* metric == "payments": for db_name in DB_CONFIGS.keys(): ...
PaymentsLoop(i, acc, env) ==
    IF i > Len(DbOrder) \/ DOMAIN acc = {} THEN acc
    ELSE PaymentsLoop(i + 1,
            PaymentsRecord(DbOrder[i], acc,
                ExecuteOver(DbOrder[i], PaymentStatement(DbOrder[i]),
                            PaymentTable(DbOrder[i]), PaymentRow(DbOrder[i], env),
                            acc.conns, env)),
            env)

\* the entities of metric "entity_counts" with their tables, in the order
\* of the dict literals
Entities(db_name) ==
    CASE db_name = "school_erp" ->
            << <<"students", "sms_students">>, <<"teachers", "sms_teachers">>,
               <<"classes", "sms_class_section">> >>
      [] db_name = "chinook" ->
            << <<"artists", "artist">>, <<"albums", "album">>,
               <<"tracks", "track">>, <<"customers", "customer">> >>
      [] db_name = "sakila" ->
            << <<"films", "film">>, <<"actors", "actor">>, <<"customers", "customer">> >>

\* f"SELECT COUNT(*) as c FROM <table>"
EntityStatement(table) == "SELECT COUNT(*) as c FROM " \o table

\* one entity, after execute_sql returned r
EntityRecord(entity_name, acc, r) ==
    [entity_counts |-> IF Succeeded(r.result)
                       THEN Put(acc.entity_counts, entity_name, r.result.data[1].c.v)
                       ELSE acc.entity_counts,
     conns |-> r.conns,
     sent  |-> acc.sent \o r.sent]

RECURSIVE EntityLoop(_, _, _, _, _)
\* the statements of one source's dict literal, then its entity_counts
EntityLoop(db_name, entities, i, acc, env) ==
    IF i > Len(entities) \/ DOMAIN acc = {} THEN acc
    ELSE EntityLoop(db_name, entities, i + 1,
            EntityRecord(entities[i][1], acc,
                ExecuteOver(db_name, EntityStatement(entities[i][2]), entities[i][2],
                            [c |-> IntValue(RowCount(db_name, entities[i][2], env))],
                            acc.conns, env)),
            env)

\* one round of the source loop of "entity_counts"
EntitiesRecord(db_name, acc, e) ==
    [by_database |-> Put(acc.by_database, db_name, e.entity_counts),
     totals      |-> acc.totals,
     conns       |-> e.conns,
     cache       |-> acc.cache,
     sent        |-> e.sent,
     asked       |-> acc.asked]

RECURSIVE EntitiesLoop(_, _, _)
\* metric == "entity_counts": for db_name in DB_CONFIGS.keys(): ...
EntitiesLoop(i, acc, env) ==
    IF i > Len(DbOrder) \/ DOMAIN acc = {} THEN acc
    ELSE EntitiesLoop(i + 1,
            EntitiesRecord(DbOrder[i], acc,
                EntityLoop(DbOrder[i], Entities(DbOrder[i]), 1,
                           [entity_counts |-> EmptyDict, conns |-> acc.conns,
                            sent |-> acc.sent],
                           env)),
            env)

\* the branches on metric
AggregateBranch(metric, acc, sch, env) ==
    CASE metric = "total_records" -> TotalRecordsLoop(1, acc, sch, env)
      [] metric = "customers"     -> CustomersLoop(1, acc, env)
      [] metric = "payments"      -> PaymentsLoop(1, acc, env)
      [] metric = "entity_counts" -> EntitiesLoop(1, acc, env)
      [] OTHER                    -> acc

\* return stats
AggregateFinish(metric, acc) ==
    [conns  |-> acc.conns,
     cache  |-> acc.cache,
     sent   |-> acc.sent,
     asked  |-> acc.asked,
     result |-> [metric |-> metric, by_database |-> acc.by_database,
                 totals |-> acc.totals]]

\* aggregate_stats(metric)
aggregate_stats(metric, conns, cache, sch, env) ==
    AggregateFinish(metric,
        AggregateBranch(metric,
                        [by_database |-> EmptyDict, totals |-> EmptyDict,
                         conns |-> conns, cache |-> cache, sent |-> << >>,
                         asked |-> {}],
                        sch, env))

-----------------------------------------------------------------------------
(* MultiDatabaseMCP: the tools over one source, and handle_call_tool        *)

\* available_databases of handle_natural_query
AvailableDatabases ==
    [i \in 1..Len(DbOrder) |-> [name |-> DbOrder[i], description |-> Description(DbOrder[i])]]

\* handle_natural_query when detection returned no database
ClarifyResult(question, detection_result) ==
    [success             |-> FALSE,
     question            |-> question,
     error               |-> detection_result.reasoning,
     suggestion          |-> detection_result.suggestion,
     scores              |-> detection_result.scores,
     action_required     |-> "Please rephrase your question or specify the database",
     available_databases |-> AvailableDatabases]

\* handle_natural_query after execute_sql returned result for sql_query
AnswerResult(question, detection_result, sql_query, result) ==
    IF Succeeded(result)
    THEN [success              |-> TRUE,
          question             |-> question,
          detected_database    |-> detection_result.database,
          confidence           |-> detection_result.confidence,
          reasoning            |-> detection_result.reasoning,
          database_description |-> Description(detection_result.database),
          sql                  |-> sql_query,
          data                 |-> Get(result, "data", << >>),
          row_count            |-> Get(result, "row_count", 0)]
    ELSE [success           |-> FALSE,
          question          |-> question,
          detected_database |-> detection_result.database,
          confidence        |-> detection_result.confidence,
          error             |-> Get(result, "error", NoneVal),
          suggestion        |-> "Try rephrasing your question or use the 'sql' tool for direct queries"]

\* handle_natural_query from the generated statement on
QueryExecuted(question, d, sql_query, r) ==
    [raised |-> FALSE, message |-> "", conns |-> r.conns, cache |-> d.cache,
     sent |-> r.sent, statement |-> sql_query,
     result |-> AnswerResult(question, d.result, sql_query, r.result)]

\* Faulty variant: a handler that sends the statement to the first source
ExecuteOnFirstSource(question, d, sql_query, conns, env) ==
    QueryExecuted(question, d, sql_query,
                  execute_sql(DbOrder[1], sql_query, conns, env))

QueryExecute(question, d, sql_query, conns, env) ==
    QueryExecuted(question, d, sql_query,
                  execute_sql(d.result.database, sql_query, conns, env))

\* handle_natural_query after detection returned d
QueryRoute(question, d, conns, env) ==
    IF d.result.database = NoneVal
    THEN [raised |-> FALSE, message |-> "", conns |-> conns, cache |-> d.cache,
          sent |-> << >>, statement |-> NoneVal,
          result |-> ClarifyResult(question, d.result)]
    ELSE QueryExecute(question, d, natural_to_sql(d.result.database, question), conns, env)

\* handle_natural_query(question); question.lower() raises AttributeError
\* when the argument is not a str
handle_natural_query(question, conns, cache, sch, env) ==
    IF question = NoneVal
    THEN [raised |-> TRUE, message |-> "'NoneType' object has no attribute 'lower'",
          conns |-> conns, cache |-> cache, sent |-> << >>, statement |-> NoneVal,
          result |-> EmptyDict]
    ELSE QueryRoute(question, detect_database(question, conns, cache, sch, env), conns, env)

\* get_schema_info with a table name, on an open connection
TableInfo(db_name, table_name, sch, env) ==
    IF DescribeRaises(db_name, Lower(table_name), sch, env.descFail)
    THEN [error |-> "1146 (42S02): Table doesn't exist", database |-> db_name]
    ELSE IF <<db_name, Lower(table_name)>> \in env.broken
    THEN [error |-> "1146 (42S02): Table doesn't exist", database |-> db_name]
    ELSE [database  |-> db_name,
          table     |-> table_name,
          columns   |-> Columns(db_name, Lower(table_name)),
          row_count |-> RowCount(db_name, Lower(table_name), env)]

\* get_schema_info without a table name, on an open connection
DatabaseInfo(db_name, sch, env) ==
    IF db_name \in env.showFail
    THEN [error |-> "2013 (HY000): Lost connection to MySQL server during query",
          database |-> db_name]
    ELSE [database    |-> db_name,
          description |-> Description(db_name),
          tables      |-> sch[db_name],
          table_count |-> Len(sch[db_name])]

\* get_schema_info after connect_to_database returned c
SchemaInfo(db_name, table_name, c, sch, env) ==
    IF c.raised
    THEN [raised |-> TRUE, message |-> KeyErrorText(db_name), conns |-> c.conns,
          result |-> EmptyDict]
    ELSE IF ~c.ok
    THEN [raised |-> FALSE, message |-> "", conns |-> c.conns,
          result |-> [error |-> "Database connection failed for " \o db_name]]
    ELSE [raised |-> FALSE, message |-> "", conns |-> c.conns,
          result |-> IF table_name # NoneVal /\ table_name # ""
                     THEN TableInfo(db_name, table_name, sch, env)
                     ELSE DatabaseInfo(db_name, sch, env)]

\* get_schema_info(db_name, table_name)
get_schema_info(db_name, table_name, conns, sch, env) ==
    SchemaInfo(db_name, table_name, connect_to_database(db_name, conns, env.up), sch, env)

\* list_databases()
list_databases ==
    [databases |-> [i \in 1..Len(DbOrder) |->
                       [name |-> DbOrder[i], description |-> Description(DbOrder[i]),
                        host |-> "localhost"]],
     total     |-> Len(DbOrder)]

\* what a tool did: whether it raised and with what text, its result, and
\* the connections and the table cache afterwards
ToolOutcome(raised, message, result, conns, cache) ==
    [raised |-> raised, message |-> message, result |-> result,
     conns |-> conns, cache |-> cache]

QueryTool(r) == ToolOutcome(r.raised, r.message, r.result, r.conns, r.cache)

CrossTool(r, cache) ==
    IF r.raised
    THEN ToolOutcome(TRUE, r.message, EmptyDict, r.conns, cache)
    ELSE ToolOutcome(FALSE, "", r.result, r.conns, cache)

SqlTool(r, cache) ==
    IF r.raised
    THEN ToolOutcome(TRUE, r.message, EmptyDict, r.conns, cache)
    ELSE ToolOutcome(FALSE, "", r.result, r.conns, cache)

SchemaTool(r, cache) == ToolOutcome(r.raised, r.message, r.result, r.conns, cache)

SearchTool(r, cache) == ToolOutcome(r.raised, r.message, r.result, r.conns, cache)

AggregateTool(r) == ToolOutcome(FALSE, "", r.result, r.conns, r.cache)

\* arguments.get("databases")
DatabasesArgument(arguments) ==
    IF "databases" \in DOMAIN arguments /\ arguments["databases"] # NoneVal
    THEN SomeList(arguments["databases"])
    ELSE NoList

\* the branches of handle_call_tool on the tool name
CallTool(name, arguments, conns, cache, sch, env) ==
    CASE name = "query" ->
            QueryTool(handle_natural_query(Get(arguments, "question", ""),
                                           conns, cache, sch, env))
      [] name = "cross_database_query" ->
            CrossTool(handle_cross_database_query(Get(arguments, "query_description", ""),
                                                  DatabasesArgument(arguments), conns, env),
                      cache)
      [] name = "sql" ->
            SqlTool(execute_sql(Get(arguments, "database", "school_erp"),
                                Get(arguments, "query", ""), conns, env),
                    cache)
      [] name = "schema" ->
            SchemaTool(get_schema_info(Get(arguments, "database", "school_erp"),
                                       Get(arguments, "table", NoneVal), conns, sch, env),
                       cache)
      [] name = "databases" ->
            ToolOutcome(FALSE, "", list_databases, conns, cache)
      [] name = "unified_search" ->
            SearchTool(unified_search(Get(arguments, "search_term", ""),
                                      Get(arguments, "search_type", "all"), conns, env),
                       cache)
      [] name = "aggregate_stats" ->
            AggregateTool(aggregate_stats(Get(arguments, "metric", "total_records"),
                                          conns, cache, sch, env))
      [] OTHER ->
            ToolOutcome(FALSE, "", [error |-> "Unknown tool: " \o name], conns, cache)

\* try: ... return [TextContent(json.dumps(result))]
\* except Exception as e: return [TextContent(json.dumps({"error": str(e)}))]
\* content is the mapping the returned text encodes
Reply(t) ==
    [propagated |-> FALSE,
     content    |-> IF t.raised THEN [error |-> t.message] ELSE t.result,
     conns      |-> t.conns,
     cache      |-> t.cache,
     tool       |-> [raised |-> t.raised, result |-> t.result]]

\* handle_call_tool(name, arguments)
handle_call_tool(name, arguments, conns, cache, sch, env) ==
    Reply(CallTool(name, arguments, conns, cache, sch, env))

-----------------------------------------------------------------------------
(* The classifier in its environment *)

\* At most this many sources have a changed schema
MaxAltered == 1

\* What the servers do during one detect_database call: nothing fails, or
\* one server fails SHOW TABLES in the table phase only, or in both phases,
\* or fails DESCRIBE
NoFault == [show2 |-> {}, show3 |-> {}, descFail |-> {}]

DetectEnvs ==
    {NoFault}
    \cup {[show2 |-> {d}, show3 |-> {},  descFail |-> {}]  : d \in DbNames}
    \cup {[show2 |-> {d}, show3 |-> {d}, descFail |-> {}]  : d \in DbNames}
    \cup {[show2 |-> {},  show3 |-> {},  descFail |-> {d}] : d \in DbNames}

\* What a server does with the statement of the sql tool
SqlRows == << [n |-> [t |-> "int", v |-> 1]] >>

SqlOutcomes ==
    { [kind |-> "error", message |-> "1064 (42000): syntax error"],
      [kind |-> "rows", rows |-> SqlRows, rowcount |-> 1] }

SqlQueries == { "  select 1 as n" }

Init ==
    /\ pc = "constructed"
    /\ connections = EmptyDict
    /\ all_tables_cache = EmptyDict
    /\ schema = PerDb([db \in DbNames |-> InitialSchema(db)])
    /\ last = [op |-> "init"]

RECURSIVE ConnectAll(_, _, _)
\* run(): connect_to_database for every configured source, from position i
ConnectAll(i, conns, up) ==
    IF i > Len(DbOrder) THEN conns
    ELSE ConnectAll(i + 1, connect_to_database(DbOrder[i], conns, up).conns, up)

\* run(): the server serves tool calls only when every source connected
Startup ==
    \E up \in SUBSET DbNames :
        /\ pc = "constructed"
        /\ connections' = ConnectAll(1, connections, up)
        /\ pc' = IF up = DbNames THEN "serving" ELSE "stopped"
        /\ last' = [op |-> "run"]
        /\ UNCHANGED <<all_tables_cache, schema>>

\* A classification: agent.detect_database(question)
DetectDatabase ==
    \E q \in Questions, env \in DetectEnvs :
        \E r \in {detect_database(q, connections, all_tables_cache, schema, env)} :
            /\ pc = "serving"
            /\ all_tables_cache' = r.cache
            /\ last' = [op |-> "detect_database", question |-> q, env |-> env,
                        before |-> all_tables_cache,
                        result |-> r.result, lookups |-> r.lookups]
            /\ UNCHANGED <<pc, connections, schema>>

\* The sql tool: execute_sql(database, query)
ExecuteSql ==
    \E db \in DbNames, query \in SqlQueries, ok \in BOOLEAN, o \in SqlOutcomes :
        LET r == execute_sql(db, query, connections,
                             [up |-> IF ok THEN {db} ELSE {},
                              outcome |-> PerDb([d \in DbNames |-> o])])
        IN  /\ pc = "serving"
            /\ connections' = r.conns
            /\ last' = [op |-> "execute_sql", database |-> db, query |-> query,
                        raised |-> r.raised, result |-> r.result]
            /\ UNCHANGED <<pc, all_tables_cache, schema>>

\* A server drops an open connection: is_connected() turns False
DropConnection ==
    \E db \in DOMAIN connections :
        /\ pc = "serving"
        /\ connections[db]
        /\ connections' = [connections EXCEPT ![db] = FALSE]
        /\ last' = [op |-> "drop"]
        /\ UNCHANGED <<pc, all_tables_cache, schema>>

\* The schema of a server changes while the process runs
AlterSchema ==
    \E db \in DbNames :
        /\ pc = "serving"
        /\ schema[db] = InitialSchema(db)
        /\ Cardinality({d \in DbNames : schema[d] # InitialSchema(d)}) < MaxAltered
        /\ schema' = [schema EXCEPT ![db] = AlteredSchema(db)]
        /\ last' = [op |-> "alter"]
        /\ UNCHANGED <<pc, connections, all_tables_cache>>

Next == Startup \/ DetectDatabase \/ ExecuteSql \/ DropConnection

Spec == Init /\ [][Next]_vars

NextAlter == Next \/ AlterSchema

SpecAlter == Init /\ [][NextAlter]_vars


-----------------------------------------------------------------------------
(* The classifier on every state it can be called in: the specification    *)
(* starts in a state the serving process can be in and classifies one      *)
(* question.                                                               *)

\* The schemas the servers can hold: the initial ones with at most
\* MaxAltered servers changed
SchemaStates ==
    {sch \in [DbNames -> UNION {{InitialSchema(d), AlteredSchema(d)} : d \in DbNames}] :
        /\ \A d \in DbNames : sch[d] \in {InitialSchema(d), AlteredSchema(d)}
        /\ Cardinality({d \in DbNames : sch[d] # InitialSchema(d)}) <= MaxAltered}

\* The caches get_all_tables can have left behind under schema sch: for
\* each source no entry, or the list of a schema the server has held
CacheStates(sch) ==
    UNION {
        {c \in [S -> UNION {{ShowTables(d, PerDb([db \in DbNames |-> InitialSchema(db)])), ShowTables(d, sch)} : d \in S}] :
            \A d \in S : c[d] \in {ShowTables(d, PerDb([db \in DbNames |-> InitialSchema(db)])), ShowTables(d, sch)}}
        : S \in SUBSET DbNames}

\* The connections of a serving process: every source has connected once
\* and may have been dropped since
ConnectionStates == [DbNames -> BOOLEAN]

InitClassify ==
    /\ pc = "serving"
    /\ connections \in ConnectionStates
    /\ schema \in SchemaStates
    /\ all_tables_cache \in CacheStates(schema)
    /\ last = [op |-> "init"]

NextClassify == last.op = "init" /\ DetectDatabase

SpecClassify == InitClassify /\ [][NextClassify]_vars

-----------------------------------------------------------------------------
(* natural_to_sql on every source and question: the specification starts in *)
(* a state that holds the arguments and builds the statement.               *)

\* The sources asked for: the configured ones and a name that is not
SqlDatabases == DbNames \cup {"warehouse"}

SqlQuestions ==
    { "How many students are in each class", "how many students per section",
      "How many Students", "how many student", "list students",
      "Show Students of class 5", "list students and teachers", "teacher list",
      "fee pending", "unpaid fees", "fee report", "pending", "students", "hello",
      "album", "Albums by Artist", "artist", "track list", "songs",
      "customer invoices", "invoice", "sales", "playlist", "playlist of songs",
      "film", "movies with actors", "actor", "rental", "rental customer",
      "customer", "category", "film category", "actor rental" }

InitSql ==
    /\ pc = "serving"
    /\ connections = PerDb([db \in DbNames |-> TRUE])
    /\ all_tables_cache = EmptyDict
    /\ schema = PerDb([db \in DbNames |-> InitialSchema(db)])
    /\ last \in {[op |-> "ask_sql", database |-> db, question |-> q] :
                    db \in SqlDatabases, q \in SqlQuestions}

\* self.natural_to_sql(db_name, question)
NaturalToSql ==
    /\ last.op = "ask_sql"
    /\ last' = [op |-> "natural_to_sql", database |-> last.database,
                question |-> last.question,
                statement |-> natural_to_sql(last.database, last.question)]
    /\ UNCHANGED <<pc, connections, all_tables_cache, schema>>

NextSql == NaturalToSql

SpecSql == InitSql /\ [][NextSql]_vars

-----------------------------------------------------------------------------
(* The cross-database query on every state it can be called in              *)

CrossDescriptions ==
    { "count customer", "Compare revenue", "email of students", "staff list",
      "hello", "recall the dvd", "movie rental" }

\* the databases argument: absent, empty, configured names, a name that is
\* not configured, a repeated name
CrossLists ==
    { NoList, SomeList(<< >>), SomeList(<< "chinook" >>),
      SomeList(<< "sakila", "chinook" >>), SomeList(<< "warehouse", "chinook" >>),
      SomeList(<< "chinook", "warehouse", "sakila" >>),
      SomeList(<< "chinook", "chinook" >>) }

\* the servers that accept a new connection during the call
CrossUp == { {}, {"chinook"}, DbNames }


\* What the three servers answer to the statement of the call.  The rows
\* of one result have the same keys and one type per column, or NULL.
CrossScenarios ==
    << [school_erp |-> RowsOutcome(<< [entity_type |-> StrValue(15), count |-> IntValue(3)] >>),
        chinook    |-> RowsOutcome(<< [entity_type |-> StrValue(15), count |-> IntValue(2)] >>),
        sakila     |-> RowsOutcome(<< [entity_type |-> StrValue(15), count |-> IntValue(0)] >>)],
       [school_erp |-> RowsOutcome(<< [entity |-> StrValue(8), count |-> IntValue(3)],
                                      [entity |-> StrValue(8), count |-> IntValue(1)] >>),
        chinook    |-> ErrorOutcome,
        sakila     |-> RowsOutcome(<< [entity |-> StrValue(5), count |-> IntValue(4)],
                                      [entity |-> StrValue(6), count |-> NullValue],
                                      [entity |-> StrValue(9), count |-> IntValue(1)] >>)],
       [school_erp |-> RowsOutcome(<< [source |-> StrValue(11), total_revenue |-> DecimalValue(25)] >>),
        chinook    |-> RowsOutcome(<< [source |-> StrValue(11), total_revenue |-> FloatValue(5)] >>),
        sakila     |-> RowsOutcome(<< [source |-> StrValue(13), total_revenue |-> NullValue] >>)],
       [school_erp |-> RowsOutcome(<< >>),
        chinook    |-> RowsOutcome(<< [id |-> IntValue(7), name |-> StrValue(9), role |-> StrValue(5)],
                                      [id |-> IntValue(8), name |-> StrValue(4), role |-> StrValue(5)] >>),
        sakila     |-> RowsOutcome(<< [id |-> IntValue(1), name |-> StrValue(6), role |-> StrValue(5)] >>)],
       [school_erp |-> RowsOutcome(<< [count |-> NullValue], [count |-> IntValue(4)] >>),
        chinook    |-> RowsOutcome(<< [count |-> FloatValue(3)], [count |-> FloatValue(4)] >>),
        sakila     |-> ErrorOutcome] >>

InitCross ==
    /\ pc = "serving"
    /\ connections \in ConnectionStates
    /\ all_tables_cache = EmptyDict
    /\ schema = PerDb([db \in DbNames |-> InitialSchema(db)])
    /\ last = [op |-> "init"]

\* what is known of a call afterwards: its arguments, the servers, the
\* connections before it, and what it returned or that it raised
CrossObserved(query_description, databases, env, before, r) ==
    IF r.raised
    THEN [op |-> "cross", description |-> query_description,
          databases |-> databases, env |-> env, before |-> before,
          raised |-> TRUE, selected |-> r.selected, sent |-> r.sent]
    ELSE [op |-> "cross", description |-> query_description,
          databases |-> databases, env |-> env, before |-> before,
          raised |-> FALSE, selected |-> r.selected, sent |-> r.sent,
          result |-> r.result]

\* The cross_database_query tool: handle_cross_database_query(description,
\* databases)
HandleCrossDatabaseQuery ==
    \E query_description \in CrossDescriptions, databases \in CrossLists,
       up \in CrossUp, i \in 1..Len(CrossScenarios) :
        \E r \in {handle_cross_database_query(query_description, databases,
                        connections, [up |-> up, outcome |-> CrossScenarios[i]])} :
            /\ pc = "serving"
            /\ connections' = r.conns
            /\ last' = CrossObserved(query_description, databases,
                                     [up |-> up, outcome |-> CrossScenarios[i]],
                                     connections, r)
            /\ UNCHANGED <<pc, all_tables_cache, schema>>

NextCross == last.op = "init" /\ HandleCrossDatabaseQuery

SpecCross == InitCross /\ [][NextCross]_vars

-----------------------------------------------------------------------------
(* The unified search on every state it can be called in                    *)

SearchTerms == { "john", "o'neil", "" }

\* the five kinds of the tool, and a kind that is none of them
SearchTypes == { "name", "email", "id", "title", "all", "phone" }

SearchRow(n) ==
    [type |-> StrValue(7), name |-> StrValue(4 + n), email |-> NullValue, id |-> IntValue(n)]

\* what one server answers to a lookup: an error, or no row, one or two
SearchOutcomes ==
    { ErrorOutcome, RowsOutcome(<< >>), RowsOutcome(<< SearchRow(1) >>),
      RowsOutcome(<< SearchRow(1), SearchRow(2) >>) }

SearchScenarios == { PerDb(o) : o \in [DbNames -> SearchOutcomes] }

\* The unified_search tool: unified_search(search_term, search_type)
UnifiedSearch ==
    \E search_term \in SearchTerms, search_type \in SearchTypes,
       up \in CrossUp, outcome \in SearchScenarios :
        \E r \in {unified_search(search_term, search_type, connections,
                                 [up |-> up, outcome |-> outcome])} :
            /\ pc = "serving"
            /\ connections' = r.conns
            /\ last' = [op |-> "unified_search", term |-> search_term,
                        type |-> search_type,
                        env |-> [up |-> up, outcome |-> outcome],
                        before |-> connections, sent |-> r.sent,
                        result |-> r.result]
            /\ UNCHANGED <<pc, all_tables_cache, schema>>

NextSearch == last.op = "init" /\ UnifiedSearch

SpecSearch == InitCross /\ [][NextSearch]_vars

-----------------------------------------------------------------------------
(* The aggregate statistics on every state they can be called in            *)

\* the tables and views of the sakila sample database, as SHOW TABLES lists
\* them
SakilaCatalog ==
    << "actor", "actor_info", "address", "category", "city", "country",
       "customer", "customer_list", "film", "film_actor", "film_category",
       "film_list", "film_text", "inventory", "language",
       "nicer_but_slower_film_list", "payment", "rental",
       "sales_by_film_category", "sales_by_store", "staff", "staff_list", "store" >>

\* the schemas of the servers: the small ones, or sakila with its catalog
AggregateSchemas ==
    { PerDb([db \in DbNames |-> InitialSchema(db)]),
      [PerDb([db \in DbNames |-> InitialSchema(db)]) EXCEPT !.sakila = SakilaCatalog] }

Metrics == { "total_records", "customers", "payments", "entity_counts", "median" }

\* the statements the servers reject during the call
BrokenTables ==
    { {},
      { <<"sakila", "film">>, <<"sakila", "category">>, <<"chinook", "album">>,
        <<"school_erp", "sms_students">>, <<"chinook", "invoice">> },
      { <<"sakila", "store">>, <<"sakila", "customer">>, <<"chinook", "customer">>,
        <<"school_erp", "fee_payments">>, <<"school_erp", "timetable">> } }

AggregateEnvs ==
    { [up |-> up, showFail |-> showFail, broken |-> broken,
       rows |-> [school_erp |-> 1, chinook |-> 0, sakila |-> 2]] :
        up \in CrossUp, showFail \in {{}, {"sakila"}}, broken \in BrokenTables }

InitAggregate ==
    /\ pc = "serving"
    /\ connections \in ConnectionStates
    /\ schema \in AggregateSchemas
    /\ all_tables_cache \in CacheStates(schema)
    /\ last = [op |-> "init"]

\* The aggregate_stats tool: aggregate_stats(metric)
AggregateStats ==
    \E metric \in Metrics, env \in AggregateEnvs :
        \E r \in {aggregate_stats(metric, connections, all_tables_cache, schema, env)} :
            /\ pc = "serving"
            /\ connections' = r.conns
            /\ all_tables_cache' = r.cache
            /\ last' = [op |-> "aggregate_stats", metric |-> metric, env |-> env,
                        before |-> connections, cache_before |-> all_tables_cache,
                        sent |-> r.sent, asked |-> r.asked, result |-> r.result]
            /\ UNCHANGED <<pc, schema>>

NextAggregate == last.op = "init" /\ AggregateStats

SpecAggregate == InitAggregate /\ [][NextAggregate]_vars

-----------------------------------------------------------------------------
(* The tool handler on every state it can be called in                      *)

\* one row per source for the statements of the single-source tools
OneRow == RowsOutcome(<< [n |-> IntValue(1)] >>)

\* The servers during one tool call: which accept a connection (up), what
\* they answer to the statement of the call (outcome), which fail SHOW
\* TABLES in the phases of the classifier (show2, show3) and elsewhere
\* (showFail), which fail DESCRIBE (descFail), which tables they reject
\* statements over (broken), and how many rows their tables hold (rows).
Healthy ==
    [up |-> DbNames, outcome |-> PerDb([db \in DbNames |-> OneRow]),
     show2 |-> {}, show3 |-> {}, showFail |-> {}, descFail |-> {}, broken |-> {},
     rows |-> [school_erp |-> 1, chinook |-> 0, sakila |-> 2]]

ToolEnvs ==
    { Healthy,
      [Healthy EXCEPT !.up = {}],
      [Healthy EXCEPT !.outcome = PerDb([db \in DbNames |-> ErrorOutcome]),
                      !.show2 = {"sakila"}, !.show3 = {"sakila"},
                      !.showFail = {"sakila"}, !.descFail = {"school_erp"},
                      !.broken = {<<"sakila", "film">>, <<"chinook", "customer">>,
                                  <<"school_erp", "sms_students">>}],
      [Healthy EXCEPT !.up = {"chinook"},
                      !.outcome = [school_erp |-> OneRow, chinook |-> RowsOutcome(<< >>),
                                   sakila |-> ErrorOutcome]] }

\* the tool calls: a name and an argument mapping
ToolCalls ==
    { <<"query", [question |-> q]>> : q \in Questions \cup {NoneVal, "Albums by Artist"} }
    \cup { <<"query", EmptyDict>>, <<"databases", EmptyDict>>, <<"export", EmptyDict>>,
           <<"cross_database_query", EmptyDict>>,
           <<"cross_database_query", [query_description |-> "count customer"]>>,
           <<"cross_database_query", [query_description |-> "hello",
                                      databases |-> << "chinook" >>]>>,
           <<"cross_database_query", [query_description |-> "count customer",
                                      databases |-> << "chinook", "warehouse", "sakila" >>]>>,
           <<"cross_database_query", [query_description |-> "count customer",
                                      databases |-> << "o'neil" >>]>>,
           <<"cross_database_query", [query_description |-> NoneVal]>>,
           <<"cross_database_query", [databases |-> NoneVal]>>,
           <<"cross_database_query", [query_description |-> NoneVal,
                                      databases |-> << "chinook" >>]>>,
           <<"cross_database_query", [query_description |-> NoneVal,
                                      databases |-> << >>]>>,
           <<"sql", EmptyDict>>,
           <<"sql", [database |-> "chinook", query |-> "  select 1 as n"]>>,
           <<"sql", [database |-> "sakila", query |-> "DELETE FROM notes"]>>,
           <<"sql", [database |-> "warehouse", query |-> "  select 1 as n"]>>,
           <<"sql", [database |-> "chinook", query |-> "\rSELECT 1"]>>,
           <<"sql", [database |-> "chinook", query |-> NoneVal]>>,
           <<"sql", [database |-> NoneVal, query |-> "SELECT 1"]>>,
           <<"schema", EmptyDict>>,
           <<"schema", [database |-> "sakila"]>>,
           <<"schema", [database |-> "sakila", table |-> "film"]>>,
           <<"schema", [database |-> "chinook", table |-> "Album"]>>,
           <<"schema", [database |-> "chinook", table |-> "invoice"]>>,
           <<"schema", [database |-> "warehouse", table |-> "film"]>>,
           <<"schema", [database |-> "o'neil"]>>,
           <<"schema", [database |-> NoneVal]>>,
           <<"unified_search", EmptyDict>>,
           <<"unified_search", [search_term |-> "john"]>>,
           <<"unified_search", [search_term |-> "o'neil", search_type |-> "id"]>>,
           <<"unified_search", [search_term |-> "john", search_type |-> "email"]>>,
           <<"unified_search", [search_term |-> NoneVal]>>,
           <<"aggregate_stats", EmptyDict>>,
           <<"aggregate_stats", [metric |-> "customers"]>>,
           <<"aggregate_stats", [metric |-> "payments"]>>,
           <<"aggregate_stats", [metric |-> "entity_counts"]>>,
           <<"aggregate_stats", [metric |-> "median"]>> }

InitTool ==
    /\ pc = "serving"
    /\ connections \in ConnectionStates
    /\ schema = PerDb([db \in DbNames |-> InitialSchema(db)])
    /\ all_tables_cache \in CacheStates(schema)
    /\ last = [op |-> "init"]

\* One tool call: handle_call_tool(name, arguments)
HandleCallTool ==
    \E call \in ToolCalls, env \in ToolEnvs :
        \E r \in {handle_call_tool(call[1], call[2], connections, all_tables_cache,
                                   schema, env)} :
            /\ pc = "serving"
            /\ connections' = r.conns
            /\ all_tables_cache' = r.cache
            /\ last' = [op |-> "call_tool", name |-> call[1], arguments |-> call[2],
                        env |-> env, before |-> connections,
                        cache_before |-> all_tables_cache,
                        propagated |-> r.propagated, content |-> r.content,
                        tool |-> r.tool]
            /\ UNCHANGED <<pc, schema>>

NextTool == last.op = "init" /\ HandleCallTool

SpecTool == InitTool /\ [][NextTool]_vars

-----------------------------------------------------------------------------
(* execute_sql on every source name, statement and connection state         *)

\* statements with the white space of str.strip() before the keyword, and None
ExecuteQueries ==
    { "  select 1 as n", "DELETE FROM notes", "", "SELEC 1",
      "\rSELECT 1", " \f select 1", NoneVal }

\* execute_sql(db_name, query), called with any name
ExecuteSqlOn ==
    \E db_name \in SqlDatabases, query \in ExecuteQueries, up \in CrossUp,
       o \in SqlOutcomes :
        \E r \in {execute_sql(db_name, query, connections,
                              [up |-> up, outcome |-> (db_name :> o)])} :
            /\ pc = "serving"
            /\ connections' = r.conns
            /\ last' = [op |-> "execute", database |-> db_name, query |-> query,
                        env |-> [up |-> up, outcome |-> (db_name :> o)],
                        before |-> connections, raised |-> r.raised,
                        result |-> r.result, sent |-> r.sent]
            /\ UNCHANGED <<pc, all_tables_cache, schema>>

NextExecute == last.op = "init" /\ ExecuteSqlOn

SpecExecute == InitCross /\ [][NextExecute]_vars

-----------------------------------------------------------------------------
(* get_all_tables called repeatedly in every state of the serving process   *)

\* At most this many calls in a row
MaxCalls == 2

\* agent.get_all_tables(db_name); the server may fail SHOW TABLES
GetAllTables ==
    \E db_name \in DbNames, fails \in BOOLEAN :
        \E r \in {get_all_tables(db_name, connections, all_tables_cache, schema,
                                 IF fails THEN {db_name} ELSE {})} :
            /\ pc = "serving"
            /\ last.op \in {"init", "get_all_tables"}
            /\ Len(last.calls) < MaxCalls
            /\ all_tables_cache' = r.cache
            /\ last' = [op |-> "get_all_tables",
                        calls |-> Append(last.calls,
                                    [db_name |-> db_name, fails |-> fails,
                                     before |-> all_tables_cache,
                                     tables |-> r.tables, asked |-> r.asked,
                                     after |-> r.cache])]
            /\ UNCHANGED <<pc, connections, schema>>

InitTables ==
    /\ pc = "serving"
    /\ connections \in ConnectionStates
    /\ schema \in SchemaStates
    /\ all_tables_cache \in CacheStates(schema)
    /\ last = [op |-> "init", calls |-> << >>]

NextTables == GetAllTables

SpecTables == InitTables /\ [][NextTables]_vars

-----------------------------------------------------------------------------
(* The column phase on a source with more tables than search_in_columns    *)
(* describes                                                                *)

\* school_erp with twelve tables, as SHOW TABLES lists them
WideSchool ==
    << "sms_students", "timetable", "sms_classes", "sms_sections", "sms_teachers",
       "sms_subjects", "sms_fees", "sms_exams", "sms_marks", "sms_rooms",
       "sms_hostels", "holidays" >>

ColumnSchemas ==
    { PerDb([db \in DbNames |-> InitialSchema(db)]),
      [PerDb([db \in DbNames |-> InitialSchema(db)]) EXCEPT !.school_erp = WideSchool] }

\* Questions without a keyword or a table name, and one with keywords
ColumnQuestions ==
    { "hello there",
      "List all STUDENTS in each class",
      "which weekday",
      "what occasion",
      "what is the title",
      "count the pupils" }

\* A classification of one of these questions
DetectByColumns ==
    \E q \in ColumnQuestions, env \in DetectEnvs :
        \E r \in {detect_database(q, connections, all_tables_cache, schema, env)} :
            /\ pc = "serving"
            /\ all_tables_cache' = r.cache
            /\ last' = [op |-> "detect_database", question |-> q, env |-> env,
                        before |-> all_tables_cache,
                        result |-> r.result, lookups |-> r.lookups]
            /\ UNCHANGED <<pc, connections, schema>>

InitColumns ==
    /\ pc = "serving"
    /\ connections \in ConnectionStates
    /\ schema \in ColumnSchemas
    /\ all_tables_cache \in CacheStates(schema)
    /\ last = [op |-> "init"]

NextColumns == last.op = "init" /\ DetectByColumns

SpecColumns == InitColumns /\ [][NextColumns]_vars

-----------------------------------------------------------------------------
(* The table cache over the lifetime of the process: the server starts,     *)
(* then classifications, aggregate_stats and get_all_tables calls run in    *)
(* any order while connections drop and the schemas of the servers change.  *)
(* last.first keeps, for each source, the list that was cached first.       *)

LifetimeQuestions ==
    { "List all STUDENTS in each class", "open the Timetable", "which weekday" }

LifetimeMetrics == { "total_records", "customers" }

LifetimeEnvs ==
    { [up |-> up, showFail |-> showFail, broken |-> {},
       rows |-> [school_erp |-> 1, chinook |-> 0, sakila |-> 2]] :
        up \in CrossUp, showFail \in {{}, {"sakila"}} }

\* what the history records after a step that leaves the cache as cache
FirstCached(cache) == last.first @@ cache

InitLifetime ==
    /\ pc = "constructed"
    /\ connections = EmptyDict
    /\ all_tables_cache = EmptyDict
    /\ schema = PerDb([db \in DbNames |-> InitialSchema(db)])
    /\ last = [op |-> "init", first |-> EmptyDict]

\* run(): connect to every source; serve when all connected
LifetimeStartup ==
    \E up \in SUBSET DbNames :
        /\ pc = "constructed"
        /\ connections' = ConnectAll(1, connections, up)
        /\ pc' = IF up = DbNames THEN "serving" ELSE "stopped"
        /\ last' = [op |-> "run", first |-> FirstCached(all_tables_cache)]
        /\ UNCHANGED <<all_tables_cache, schema>>

\* agent.detect_database(question)
LifetimeDetectDatabase ==
    \E q \in LifetimeQuestions, env \in DetectEnvs :
        \E r \in {detect_database(q, connections, all_tables_cache, schema, env)} :
            /\ pc = "serving"
            /\ all_tables_cache' = r.cache
            /\ last' = [op |-> "detect_database", first |-> FirstCached(r.cache)]
            /\ UNCHANGED <<pc, connections, schema>>

\* aggregate_stats(metric)
LifetimeAggregateStats ==
    \E metric \in LifetimeMetrics, env \in LifetimeEnvs :
        \E r \in {aggregate_stats(metric, connections, all_tables_cache, schema, env)} :
            /\ pc = "serving"
            /\ connections' = r.conns
            /\ all_tables_cache' = r.cache
            /\ last' = [op |-> "aggregate_stats", first |-> FirstCached(r.cache)]
            /\ UNCHANGED <<pc, schema>>

\* agent.get_all_tables(db_name); the server may fail SHOW TABLES
LifetimeGetAllTables ==
    \E db_name \in DbNames, fails \in BOOLEAN :
        \E r \in {get_all_tables(db_name, connections, all_tables_cache, schema,
                                 IF fails THEN {db_name} ELSE {})} :
            /\ pc = "serving"
            /\ all_tables_cache' = r.cache
            /\ last' = [op |-> "get_all_tables", first |-> FirstCached(r.cache),
                        db_name |-> db_name, tables |-> r.tables, asked |-> r.asked,
                        cached |-> db_name \in DOMAIN all_tables_cache]
            /\ UNCHANGED <<pc, connections, schema>>

\* a server drops an open connection
LifetimeDropConnection ==
    \E db \in DOMAIN connections :
        /\ pc = "serving"
        /\ connections[db]
        /\ connections' = [connections EXCEPT ![db] = FALSE]
        /\ last' = [op |-> "drop", first |-> FirstCached(all_tables_cache)]
        /\ UNCHANGED <<pc, all_tables_cache, schema>>

\* the schema of a server changes while the process runs
LifetimeAlterSchema ==
    \E db \in DbNames :
        /\ pc = "serving"
        /\ schema[db] = InitialSchema(db)
        /\ Cardinality({d \in DbNames : schema[d] # InitialSchema(d)}) < MaxAltered
        /\ schema' = [schema EXCEPT ![db] = AlteredSchema(db)]
        /\ last' = [op |-> "alter", first |-> FirstCached(all_tables_cache)]
        /\ UNCHANGED <<pc, connections, all_tables_cache>>

NextLifetime ==
    \/ LifetimeStartup
    \/ LifetimeDetectDatabase
    \/ LifetimeAggregateStats
    \/ LifetimeGetAllTables
    \/ LifetimeDropConnection
    \/ LifetimeAlterSchema

SpecLifetime == InitLifetime /\ [][NextLifetime]_vars

-----------------------------------------------------------------------------
(* handle_natural_query on every state it can be called in                  *)

QueryQuestions ==
    Questions
    \cup { "how many students are in class 10", "How many students per section",
           "How many Students", "Show Students of class 5",
           "students in every class", "students" }

\* The query tool's handler: handle_natural_query(question)
HandleNaturalQuery ==
    \E q \in QueryQuestions, env \in ToolEnvs :
        \E r \in {handle_natural_query(q, connections, all_tables_cache, schema, env)} :
            /\ pc = "serving"
            /\ connections' = r.conns
            /\ all_tables_cache' = r.cache
            /\ last' = [op |-> "handle_natural_query", question |-> q, env |-> env,
                        before |-> connections, cache_before |-> all_tables_cache,
                        statement |-> r.statement, sent |-> r.sent,
                        result |-> r.result]
            /\ UNCHANGED <<pc, schema>>

NextQuery == last.op = "init" /\ HandleNaturalQuery

SpecQuery == InitClassify /\ [][NextQuery]_vars

-----------------------------------------------------------------------------
(* Properties of the classifier (SpecClassify)                              *)

\* A classification has been made; last holds its question, result, lookups
Classified == last.op = "detect_database"

\* The three shapes of a result
IsResolved(result) == "all_matches" \in DOMAIN result
IsAmbiguous(result) == "tied_databases" \in DOMAIN result
IsUnresolved(result) ==
    ~IsResolved(result) /\ ~IsAmbiguous(result) /\ "suggestion" \in DOMAIN result

\* The sources holding the highest score of a score vector
Leaders(scores) == {db \in DbNames : \A d \in DbNames : scores[d] <= scores[db]}

\* The number of names of a table list that occur in a text
Occurrences(tables, text) ==
    Cardinality({i \in 1..Len(tables) : Find(tables[i], text)})

\* C1: when exactly one source holds the strictly highest, non-zero final
\* score, the result is Resolved and names that source.
C1_UniqueLeaderResolved ==
    Classified =>
        \A db \in DbNames :
            (/\ last.result.scores[db] > 0
             /\ \A d \in DbNames \ {db} :
                    last.result.scores[d] < last.result.scores[db])
            => (IsResolved(last.result) /\ last.result.database = db)

\* a question won by school_erp alone through one table name
C1_Witness ==
    /\ Classified
    /\ IsResolved(last.result)
    /\ last.result.database = "school_erp"
    /\ last.result.scores["school_erp"] = 5
    /\ last.lookups.keyword_scores["school_erp"] = 0

\* C2: when two or more sources share the non-zero maximum of the final
\* scores, the result is Ambiguous with database None, confidence 50 and
\* tied_databases exactly the sources holding the maximum.
C2_TieAmbiguous ==
    Classified =>
        ((/\ Cardinality(Leaders(last.result.scores)) >= 2
          /\ \E db \in DbNames : last.result.scores[db] > 0)
         => (/\ IsAmbiguous(last.result)
             /\ last.result.database = NoneVal
             /\ last.result.confidence = << 50, 1 >>
             /\ SeqToSet(last.result.tied_databases) = Leaders(last.result.scores)
             /\ Len(last.result.tied_databases)
                    = Cardinality(Leaders(last.result.scores))))

\* a tie of two sources above a third that scored less
C2_Witness ==
    /\ Classified
    /\ IsAmbiguous(last.result)
    /\ Len(last.result.tied_databases) = 2
    /\ \E db \in DbNames : db \notin SeqToSet(last.result.tied_databases)

\* The table names the process can hold for a source: those of the server
\* and those of the cached list
KnownTables(db) ==
    SeqToSet(ShowTables(db, schema))
    \cup (IF db \in DOMAIN all_tables_cache
          THEN SeqToSet(all_tables_cache[db]) ELSE {})

\* The question holds no keyword, no table name and no qualifying column
\* name of any source
NothingMatches(question_lower) ==
    \A db \in DbNames :
        /\ \A i \in 1..Len(database_keywords(db)) :
                ~Find(database_keywords(db)[i], question_lower)
        /\ \A table \in KnownTables(db) :
                /\ ~Find(table, question_lower)
                /\ \A j \in 1..Len(Columns(db, table)) :
                        ~ColumnMatches(Columns(db, table)[j], question_lower)

\* C3: a question that holds no keyword, no table name and no qualifying
\* column name of any source is Unresolved (database None, confidence 0)
\* and the suggestion names every configured source with its description.
C3_NoMatchUnresolved ==
    Classified =>
        (NothingMatches(Lower(last.question))
         => (/\ IsUnresolved(last.result)
             /\ last.result.database = NoneVal
             /\ last.result.confidence = << 0, 1 >>
             /\ \A db \in DbNames :
                    Find(db \o " (" \o Description(db) \o ")",
                         last.result.suggestion)))

\* nothing matched although every source was connected and its tables
\* were described
C3_Witness ==
    /\ Classified
    /\ NothingMatches(Lower(last.question))
    /\ \A db \in DbNames : IsConnected(db, connections)
    /\ \A db \in DbNames : last.lookups.described[db] # << >>

\* C4: the phases of one call are ordered and short-circuit: table lists
\* are consulted and table scores added only when the keyword phase left
\* every score at 0; tables are described and column scores added only when
\* every score is still 0 after the table phase; a call whose keyword phase
\* scored does no table or column lookup.
C4_PhasesShortCircuit ==
    Classified =>
        /\ (\/ last.lookups.consulted # {}
            \/ last.lookups.show_sent2 # {}
            \/ \E db \in DbNames : last.lookups.table_scores[db] > 0)
           => \A db \in DbNames : last.lookups.keyword_scores[db] = 0
        /\ (\/ last.lookups.show_sent3 # {}
            \/ \E db \in DbNames : last.lookups.described[db] # << >>
            \/ \E db \in DbNames : last.lookups.column_scores[db] > 0)
           => \A db \in DbNames :
                /\ last.lookups.keyword_scores[db] = 0
                /\ last.lookups.table_scores[db] = 0
        /\ (\E db \in DbNames : last.lookups.keyword_scores[db] > 0)
           => /\ last.lookups.consulted = {}
              /\ last.lookups.show_sent2 = {}
              /\ last.lookups.show_sent3 = {}
              /\ \A db \in DbNames :
                    /\ last.lookups.table_lists[db] = << >>
                    /\ last.lookups.described[db] = << >>
                    /\ last.result.scores[db] = last.lookups.keyword_scores[db]

\* the table phase ran, scored, and kept the column phase from running
\* although a source was connected
C4_Witness ==
    /\ Classified
    /\ last.lookups.consulted = DbNames
    /\ \E db \in DbNames : last.lookups.table_scores[db] > 0
    /\ \A db \in DbNames : last.lookups.described[db] = << >>
    /\ \A db \in DbNames : IsConnected(db, connections)

\* The winning scores the comparison of confidences ranges over
MaxWinningScore == 40

\* fraction a is below fraction b (positive denominators)
Below(a, b) == a[1] * b[2] < b[1] * a[2]

\* C5: the confidence of a Resolved result with winning score s >= 1 is
\* min(100, 100*s/(s+1)); it grows strictly with s and stays below 100.
C5_Confidence ==
    /\ Classified /\ IsResolved(last.result) =>
        /\ last.result.scores[last.result.database] >= 1
        /\ last.result.confidence[2] > 0
        /\ last.result.confidence[1] * (last.result.scores[last.result.database] + 1)
              = 100 * last.result.scores[last.result.database]
                    * last.result.confidence[2]
        /\ Below(last.result.confidence, << 100, 1 >>)
    /\ \A s \in 1..MaxWinningScore :
        /\ Below(Confidence(s), << 100, 1 >>)
        /\ Confidence(s)[1] * (s + 1) = 100 * s * Confidence(s)[2]
        /\ \A t \in (s + 1)..MaxWinningScore : Below(Confidence(s), Confidence(t))

\* a winner by two keywords: confidence 200/3
C5_Witness ==
    /\ Classified
    /\ IsResolved(last.result)
    /\ last.result.scores[last.result.database] = 2
    /\ last.result.confidence = << 200, 3 >>

\* The sources whose server holds a table named in the question
OwnersOnServer(question_lower) ==
    {db \in DbNames : Occurrences(ShowTables(db, schema), question_lower) > 0}

\* The sources whose table list, as get_all_tables returned it in this
\* call, holds a table named in the question
OwnersInLists(question_lower) ==
    {db \in DbNames : Occurrences(last.lookups.table_lists[db], question_lower) > 0}

\* no keyword of any source occurs in the question
NoKeyword(question_lower) ==
    \A db \in DbNames : \A i \in 1..Len(database_keywords(db)) :
        ~Find(database_keywords(db)[i], question_lower)

\* C6 as stated: a question with no keyword that names a table of exactly
\* one source gives that source 5 per matching table, every other source
\* 0, and is Resolved to that source.
C6_AsStated ==
    Classified =>
        \A db \in DbNames :
            (/\ NoKeyword(Lower(last.question))
             /\ OwnersOnServer(Lower(last.question)) = {db})
            => (/\ last.lookups.table_scores[db]
                      = 5 * Occurrences(ShowTables(db, schema), Lower(last.question))
                /\ \A d \in DbNames \ {db} : last.lookups.table_scores[d] = 0
                /\ IsResolved(last.result)
                /\ last.result.database = db)

\* C6: a question with no keyword that names a table of the list
\* get_all_tables returns (the cached list, or the list of a connected
\* server that answers SHOW TABLES) for exactly one source gives that
\* source 5 per matching table of the list, every other source 0, and is
\* Resolved to that source.
C6_TableNameResolves ==
    Classified =>
        \A db \in DbNames :
            (/\ NoKeyword(Lower(last.question))
             /\ OwnersInLists(Lower(last.question)) = {db})
            => (/\ last.lookups.table_scores[db]
                      = 5 * Occurrences(last.lookups.table_lists[db],
                                        Lower(last.question))
                /\ \A d \in DbNames \ {db} : last.lookups.table_scores[d] = 0
                /\ last.result.scores[db] = last.lookups.table_scores[db]
                /\ IsResolved(last.result)
                /\ last.result.database = db)

\* the one owner scored 5 for its table while another connected source
\* scored nothing
C6_Witness ==
    /\ Classified
    /\ NoKeyword(Lower(last.question))
    /\ OwnersInLists(Lower(last.question)) = {"school_erp"}
    /\ last.lookups.table_scores["school_erp"] = 5
    /\ last.lookups.table_lists["chinook"] # << >>
    /\ last.result.database = "school_erp"

-----------------------------------------------------------------------------
(* Properties of natural_to_sql (SpecSql)                                   *)

\* A guard: every clause holds, a clause holds when one of its terms occurs
GuardHolds(guard, q) ==
    \A i \in 1..Len(guard) : \E term \in guard[i] : Find(term, q)

\* The guards of a source in priority order, each with its statement
GuardList(db) ==
    CASE db = "school_erp" ->
            << [guard |-> << {"how many students"}, {"class", "section"} >>,
                statement |-> SchoolStudentsPerClass],
               [guard |-> << {"how many students"} >>, statement |-> SchoolStudentCount],
               [guard |-> << {"list students", "show students"} >>,
                statement |-> SchoolStudentList],
               [guard |-> << {"teacher"} >>, statement |-> SchoolTeachers],
               [guard |-> << {"fee"}, {"pending", "unpaid"} >>,
                statement |-> SchoolPendingFees] >>
      [] db = "chinook" ->
            << [guard |-> << {"album"}, {"artist"} >>, statement |-> ChinookAlbumsByArtist],
               [guard |-> << {"album"} >>, statement |-> ChinookAlbums],
               [guard |-> << {"artist"} >>, statement |-> ChinookArtists],
               [guard |-> << {"track", "song"} >>, statement |-> ChinookTracks],
               [guard |-> << {"customer"} >>, statement |-> ChinookCustomers],
               [guard |-> << {"invoice", "sale"} >>, statement |-> ChinookInvoices],
               [guard |-> << {"playlist"} >>, statement |-> ChinookPlaylists] >>
      [] db = "sakila" ->
            << [guard |-> << {"film", "movie"}, {"actor"} >>, statement |-> SakilaFilmActors],
               [guard |-> << {"film", "movie"} >>, statement |-> SakilaFilms],
               [guard |-> << {"actor"} >>, statement |-> SakilaActors],
               [guard |-> << {"rental"} >>, statement |-> SakilaRentals],
               [guard |-> << {"customer"} >>, statement |-> SakilaCustomers],
               [guard |-> << {"category"} >>, statement |-> SakilaCategories] >>

HelpOf(db) ==
    CASE db = "school_erp" -> SchoolHelp
      [] db = "chinook"    -> ChinookHelp
      [] db = "sakila"     -> SakilaHelp

RECURSIVE FirstMatch(_, _, _, _)
\* the statement of the first guard from position i that holds, else help
FirstMatch(catalog, i, help, q) ==
    IF i > Len(catalog) THEN help
    ELSE IF GuardHolds(catalog[i].guard, q) THEN catalog[i].statement
    ELSE FirstMatch(catalog, i + 1, help, q)

CatalogStatements(db) ==
    {GuardList(db)[i].statement : i \in 1..Len(GuardList(db))} \cup {HelpOf(db)}

\* C7: natural_to_sql returns, for a configured source, the statement of
\* the first guard of the source's priority list that holds on the
\* lowercased question, or the source's help statement when none holds; the
\* statement always belongs to the source's fixed catalog, and a name that
\* is not configured gets the fixed unknown-database statement.
C7_FirstMatchWins ==
    last.op = "natural_to_sql" =>
        IF last.database \in DbNames
        THEN /\ last.statement = FirstMatch(GuardList(last.database), 1,
                                            HelpOf(last.database),
                                            Lower(last.question))
             /\ last.statement \in CatalogStatements(last.database)
        ELSE last.statement = "SELECT 'Unknown database' as error"

\* two guards of chinook hold on the question and the earlier one won
C7_Witness ==
    /\ last.op = "natural_to_sql"
    /\ last.database = "chinook"
    /\ GuardHolds(GuardList("chinook")[5].guard, Lower(last.question))
    /\ GuardHolds(GuardList("chinook")[6].guard, Lower(last.question))
    /\ last.statement = ChinookCustomers

-----------------------------------------------------------------------------
(* Properties of the cross-database query (SpecCross)                       *)

CrossDone == last.op = "cross"

HasBroadTerm(text) ==
    \E term \in {"all", "compare", "across", "every", "total"} : Find(term, text)

\* the sources with at least one keyword in the text
KeywordSources(text) ==
    {db \in DbNames :
        \E i \in 1..Len(database_keywords(db)) : Find(database_keywords(db)[i], text)}

\* C8: without an explicit list the selection is never empty: every
\* configured source when the description holds a broad term, else exactly
\* the sources with a keyword in it, else every configured source; an
\* explicit list is used unchanged.
C8_SelectionNeverEmpty ==
    CrossDone =>
        IF last.databases.is_none
        THEN /\ last.selected # << >>
             /\ Len(last.selected) = Cardinality(SeqToSet(last.selected))
             /\ SeqToSet(last.selected) =
                    (IF HasBroadTerm(Lower(last.description)) THEN DbNames
                     ELSE IF KeywordSources(Lower(last.description)) # {}
                          THEN KeywordSources(Lower(last.description))
                          ELSE DbNames)
        ELSE /\ last.selected = last.databases.value
             /\ ~last.raised => last.result.databases_queried = last.databases.value

\* no list given, no broad term and no keyword: every source was selected
C8_Witness ==
    /\ CrossDone
    /\ last.databases.is_none
    /\ ~HasBroadTerm(Lower(last.description))
    /\ KeywordSources(Lower(last.description)) = {}
    /\ SeqToSet(last.selected) = DbNames

\* the source is configured and was connected, or its server accepts a
\* connection
CanConnect(db) ==
    db \in DbNames /\ (IsConnected(db, last.before) \/ db \in last.env.up)

StatementSentTo(db) == \E i \in 1..Len(last.sent) : last.sent[i][1] = db

\* the entry of a configured source: its rows, the server's error, or the
\* connection failure
EntryRecordsOutcome(db, entry) ==
    IF ~CanConnect(db)
    THEN "error" \in DOMAIN entry
         /\ entry.error = "Database connection failed for " \o db
    ELSE /\ StatementSentTo(db)
         /\ IF last.env.outcome[db].kind = "rows"
            THEN "data" \in DOMAIN entry /\ entry.data = last.env.outcome[db].rows
            ELSE "error" \in DOMAIN entry
                 /\ entry.error = last.env.outcome[db].message

\* C9 as stated: whatever fails for some selected sources (connection,
\* statement, unknown name), the call returns, a statement is executed for
\* every selected source that can be reached, and individual_results holds
\* one entry per selected source with its rows or its error.
C9_AsStated ==
    CrossDone =>
        /\ ~last.raised
        /\ DOMAIN last.result.individual_results = SeqToSet(last.selected)
        /\ \A db \in SeqToSet(last.selected) :
                /\ CanConnect(db) => StatementSentTo(db)
                /\ \/ "data" \in DOMAIN last.result.individual_results[db]
                   \/ "error" \in DOMAIN last.result.individual_results[db]

\* C9 for lists of configured names only: connection failures and
\* statement errors of some sources leave the others untouched.
C9_ConfiguredSourcesIsolated ==
    (CrossDone /\ SeqToSet(last.selected) \subseteq DbNames) =>
        /\ ~last.raised
        /\ DOMAIN last.result.individual_results = SeqToSet(last.selected)
        /\ \A db \in SeqToSet(last.selected) :
                EntryRecordsOutcome(db, last.result.individual_results[db])

\* a list with a name that is not configured: the call raised and a
\* reachable source after it got no statement
C9_Witness ==
    /\ CrossDone
    /\ last.raised
    /\ \E db \in SeqToSet(last.selected) : CanConnect(db) /\ ~StatementSentTo(db)

\* The types of the numeric values a row can hold: int and float, and the
\* decimal.Decimal that SUM() and AVG() of a DECIMAL or integer column yield
NumberTypes == {"int", "float", "decimal"}

\* the types isinstance(value, (int, float)) accepts
IntOrFloatTypes == {"int", "float"}

\* the sources whose result has rows and whose first row holds a value of
\* one of the types under k
Exposing(res, k, types) ==
    {db \in DOMAIN res :
        /\ "data" \in DOMAIN res[db]
        /\ Len(res[db].data) > 0
        /\ k \in DOMAIN res[db].data[1]
        /\ res[db].data[1][k].t \in types}

\* the field names of the rows of all results
FieldNames(res) ==
    UNION {UNION {DOMAIN res[db].data[i] : i \in 1..Len(res[db].data)} :
            db \in {d \in DOMAIN res : "data" \in DOMAIN res[d]}}

\* a value of one of the types, in halves; any other value counts nothing
NumericHalves(value, types) ==
    IF value.t \notin types THEN 0
    ELSE IF value.t = "int" THEN 2 * value.v
    ELSE value.v

RECURSIVE RowsSum(_, _, _, _)
RowsSum(data, k, i, types) ==
    IF i > Len(data) THEN 0
    ELSE (IF k \in DOMAIN data[i] THEN NumericHalves(data[i][k], types) ELSE 0)
         + RowsSum(data, k, i + 1, types)

RECURSIVE SourcesSum(_, _, _, _)
SourcesSum(res, dbs, k, types) ==
    IF dbs = {} THEN 0
    ELSE RowsSum(res[CHOOSE db \in dbs : TRUE].data, k, 1, types)
         + SourcesSum(res, dbs \ {CHOOSE db \in dbs : TRUE}, k, types)

\* totals holds exactly the field names that some source's first row holds
\* as a value of one of the types, and totals[k] is the sum, over those
\* sources and all their rows, of the values of these types under k
TotalsSumOver(types) ==
    /\ DOMAIN last.result.combined_analysis.totals =
          {k \in FieldNames(last.result.individual_results) :
                Exposing(last.result.individual_results, k, types) # {}}
    /\ \A k \in DOMAIN last.result.combined_analysis.totals :
          NumericHalves(last.result.combined_analysis.totals[k], NumberTypes)
            = SourcesSum(last.result.individual_results,
                         Exposing(last.result.individual_results, k, types), k, types)

\* C10 as stated: for every field name k, totals[k] is the sum, over every
\* source whose first row holds a numeric value under k and over every row
\* of that source, of the numeric values under k; the other sources add
\* nothing.  A numeric value is an int, a float or a decimal.
C10_AsStated ==
    (CrossDone /\ ~last.raised) => TotalsSumOver(NumberTypes)

\* C10 for int and float: the statement holds when only the values that
\* isinstance(value, (int, float)) accepts are counted as numeric; a
\* decimal adds nothing, in the first row or in a later one.
C10_IntAndFloatSummed ==
    (CrossDone /\ ~last.raised) => TotalsSumOver(IntOrFloatTypes)

\* a revenue query: the first row of school_erp holds the decimal 12.5
\* under total_revenue and the first row of chinook the float 2.5; the
\* total is 2.5, the decimal is left out
C10_Witness ==
    /\ CrossDone
    /\ ~last.raised
    /\ {"school_erp", "chinook"} \subseteq DOMAIN last.result.individual_results
    /\ "data" \in DOMAIN last.result.individual_results["school_erp"]
    /\ "data" \in DOMAIN last.result.individual_results["chinook"]
    /\ last.result.individual_results["school_erp"].data =
          << [source |-> StrValue(11), total_revenue |-> DecimalValue(25)] >>
    /\ last.result.individual_results["chinook"].data =
          << [source |-> StrValue(11), total_revenue |-> FloatValue(5)] >>
    /\ last.result.combined_analysis.totals["total_revenue"] = FloatValue(5)

-----------------------------------------------------------------------------
(* Properties of the unified search (SpecSearch)                            *)

SearchDone == last.op = "unified_search"

\* the statement the call builds for a source
SearchStatementFor(db) == _generate_search_query(db, last.term, last.type)

\* what the server of a source answers to that statement
SearchAnswerOf(db) == ServerAnswer(SearchStatementFor(db), last.env.outcome[db])

\* the statement of the source executed successfully and returned a row
SearchFound(db) ==
    /\ CanConnect(db)
    /\ SearchAnswerOf(db).kind = "rows"
    /\ Len(SearchAnswerOf(db).rows) >= 1

RECURSIVE SumOver(_, _)
\* the sum of f over the set S
SumOver(f, S) ==
    IF S = {} THEN 0
    ELSE LET x == CHOOSE y \in S : TRUE IN f[x] + SumOver(f, S \ {x})

\* C11: after unified_search, a source is in results_by_database exactly
\* when its statement executed successfully and returned at least one row,
\* its count and matches are those rows, total_matches is the sum of the
\* counts of the sources that appear, and every source that can be reached
\* got its statement whatever happened to the others.
C11_SearchResults ==
    SearchDone =>
        /\ \A db \in DbNames :
              /\ (db \in DOMAIN last.result.results_by_database) <=> SearchFound(db)
              /\ CanConnect(db) => <<db, SearchStatementFor(db)>> \in SeqToSet(last.sent)
              /\ SearchFound(db) =>
                    /\ last.result.results_by_database[db].count = Len(SearchAnswerOf(db).rows)
                    /\ last.result.results_by_database[db].matches = SearchAnswerOf(db).rows
        /\ last.result.total_matches =
              SumOver([db \in DOMAIN last.result.results_by_database |->
                          last.result.results_by_database[db].count],
                      DOMAIN last.result.results_by_database)

\* a search by name where school_erp cannot be reached, chinook fails the
\* statement and sakila alone appears, with its two rows
C11_Witness ==
    /\ SearchDone
    /\ last.type = "name"
    /\ ~CanConnect("school_erp")
    /\ CanConnect("chinook") /\ last.env.outcome["chinook"].kind = "error"
    /\ DOMAIN last.result.results_by_database = {"sakila"}
    /\ last.result.total_matches = 2

\* the five kinds of the tool
SearchKinds == { "name", "email", "id", "title", "all" }

\* the statement selects with the term in a LIKE pattern
FiltersByTerm(statement, term) ==
    Find("LIKE '%" \o EscapeQuotes(term) \o "%'", statement)

\* C12 as stated: for every source and each of the five kinds the statement
\* built is a lookup filtered by the search term, and for the kinds "id"
\* and "all" it is the statement of a name search.
C12_AsStated ==
    (SearchDone /\ last.type \in SearchKinds) =>
        \A db \in DbNames :
            /\ FiltersByTerm(SearchStatementFor(db), last.term)
            /\ last.type \in {"id", "all"} =>
                  SearchStatementFor(db) = _generate_search_query(db, last.term, "name")

\* a search of kind "id" for a term no table holds: every reachable source
\* is sent the constant statement and appears with one match
C12_Witness ==
    /\ SearchDone
    /\ last.type = "id"
    /\ last.term = "john"
    /\ \A db \in DbNames :
          /\ CanConnect(db)
          /\ last.env.outcome[db] = RowsOutcome(<< >>)
          /\ <<db, NoResultsStatement>> \in SeqToSet(last.sent)
    /\ DOMAIN last.result.results_by_database = DbNames
    /\ last.result.total_matches = 3

\* What does hold of the statements: kinds "name" and "all" give the same
\* lookup filtered by the term for every source; every other kind gives a
\* lookup filtered by the term or the constant statement.
C12_NameAndAllFilter ==
    SearchDone =>
        \A db \in DbNames :
            /\ last.type \in {"name", "all"} =>
                  /\ FiltersByTerm(SearchStatementFor(db), last.term)
                  /\ SearchStatementFor(db) = _generate_search_query(db, last.term, "name")
            /\ \/ FiltersByTerm(SearchStatementFor(db), last.term)
               \/ SearchStatementFor(db) = NoResultsStatement

-----------------------------------------------------------------------------
(* Properties of the aggregate statistics (SpecAggregate)                   *)

AggregateDone == last.op = "aggregate_stats"

\* the table list of a source during the call: the cached one, or the one
\* fetched over the open connection
ListedTables(db) ==
    IF db \in DOMAIN last.cache_before THEN last.cache_before[db]
    ELSE IF IsConnected(db, last.before) /\ db \notin last.env.showFail
         THEN ShowTables(db, schema)
         ELSE << >>

\* the first n elements of a list, as a set
FirstOf(list, n) == {list[i] : i \in 1..(IF Len(list) < n THEN Len(list) ELSE n)}

\* the count statement over the table succeeds
Countable(db, table) ==
    /\ CanConnect(db)
    /\ <<db, table>> \notin last.env.broken
    /\ table \in SeqToSet(ShowTables(db, schema))

\* C13: after aggregate_stats("total_records"), every configured source has
\* an entry in by_database and in totals; its tally holds exactly the tables
\* among the first 20 of its table list whose count statement succeeded,
\* each with the count the server returned; a count statement was sent for
\* each of those 20 tables of a reachable source, also after a failing one;
\* and totals[source] is the sum of the counts in by_database[source].
C13_TotalRecords ==
    (AggregateDone /\ last.metric = "total_records") =>
        /\ DOMAIN last.result.by_database = DbNames
        /\ DOMAIN last.result.totals = DbNames
        /\ \A db \in DbNames :
              /\ DOMAIN last.result.by_database[db] =
                    {t \in FirstOf(ListedTables(db), 20) : Countable(db, t)}
              /\ \A t \in DOMAIN last.result.by_database[db] :
                    last.result.by_database[db][t] = RowCount(db, t, last.env)
              /\ CanConnect(db) =>
                    \A t \in FirstOf(ListedTables(db), 20) :
                        <<db, CountStatement(t)>> \in SeqToSet(last.sent)
              /\ last.result.totals[db] =
                    SumOver(last.result.by_database[db], DOMAIN last.result.by_database[db])

\* sakila lists its 23 tables and views and rejects the counts over film and
\* category: the tally holds 18 tables, language among them, staff and film
\* not
C13_Witness ==
    /\ AggregateDone
    /\ last.metric = "total_records"
    /\ Len(ListedTables("sakila")) = 23
    /\ <<"sakila", "film">> \in last.env.broken
    /\ Cardinality(DOMAIN last.result.by_database["sakila"]) = 18
    /\ "language" \in DOMAIN last.result.by_database["sakila"]
    /\ "staff" \notin DOMAIN last.result.by_database["sakila"]
    /\ "film" \notin DOMAIN last.result.by_database["sakila"]
    /\ last.result.totals["sakila"] > 0

-----------------------------------------------------------------------------
(* Properties of the tool handler (SpecTool)                                *)

ToolDone == last.op = "call_tool"

\* a mapping from field names to values, with at least one field
IsMapping(m) == DOMAIN m # {} /\ \A k \in DOMAIN m : k \in STRING

\* no configured source can be reached during the call
ServersDown == \A db \in DbNames : ~CanConnect(db)

\* the tools that address a server whatever their arguments are
ServerTools == { "sql", "schema", "unified_search" }

\* the metrics that address every server
ServerMetrics == { "customers", "payments", "entity_counts" }

\* the call could not do its work: the tool raised, or no server it
\* addresses can be reached
CallFailed ==
    \/ last.tool.raised
    \/ ServersDown /\ last.name \in ServerTools
    \/ /\ ServersDown
       /\ last.name = "aggregate_stats"
       /\ Get(last.arguments, "metric", "total_records") \in ServerMetrics

\* C14 as stated: every tool call returns a mapping, no exception leaves
\* handle_call_tool, and a call that failed has an error field in its result.
C14_AsStated ==
    ToolDone =>
        /\ ~last.propagated
        /\ IsMapping(last.content)
        /\ CallFailed => "error" \in DOMAIN last.content

\* the source a sql or schema call addresses
CallDatabase == Get(last.arguments, "database", "school_erp")

\* the sql call could not do its work: the source is not configured or
\* cannot be reached, the server rejects the statement, or the query is null
SqlFailed ==
    \/ ~CanConnect(CallDatabase)
    \/ last.env.outcome[CallDatabase].kind = "error"
    \/ Get(last.arguments, "query", "") = NoneVal

\* the table a schema call names, or nothing
CallTable == Get(last.arguments, "table", NoneVal)

\* the schema call could not do its work: the source is not configured or
\* cannot be reached, or the server fails the statements about the table, or
\* the listing of the tables
SchemaFailed ==
    \/ ~CanConnect(CallDatabase)
    \/ IF CallTable # NoneVal /\ CallTable # ""
       THEN \/ DescribeRaises(CallDatabase, Lower(CallTable), schema, last.env.descFail)
            \/ <<CallDatabase, Lower(CallTable)>> \in last.env.broken
       ELSE CallDatabase \in last.env.showFail

\* the statement of a source could not be executed: the source cannot be
\* reached or its server rejects the statement
SourceFailed(db) == ~CanConnect(db) \/ last.env.outcome[db].kind = "error"

\* C14, what the code does: every tool call returns a mapping and no
\* exception leaves handle_call_tool; an exception raised inside a tool
\* becomes the mapping {"error": text}; an unknown tool name is answered
\* with an error; sql and schema have the error field exactly when the call
\* failed; a query that did not succeed has an error field; each source of
\* cross_database_query has the error in its own entry exactly when its
\* statement failed; unified_search and aggregate_stats that run to their
\* end never have an error field: unified_search leaves a failed source
\* out, and with no reachable server both return their empty tallies.
C14_MappingAlwaysReturned ==
    ToolDone =>
        /\ ~last.propagated
        /\ IsMapping(last.content)
        /\ last.tool.raised => DOMAIN last.content = {"error"}
        /\ last.name \notin {"query", "cross_database_query", "sql", "schema", "databases",
                             "unified_search", "aggregate_stats"}
              => last.content = [error |-> "Unknown tool: " \o last.name]
        /\ last.name = "sql" => (SqlFailed <=> "error" \in DOMAIN last.content)
        /\ last.name = "schema" => (SchemaFailed <=> "error" \in DOMAIN last.content)
        /\ (last.name = "query" /\ ~last.tool.raised /\ ~last.content.success)
              => "error" \in DOMAIN last.content
        /\ (last.name = "cross_database_query" /\ ~last.tool.raised) =>
              /\ "error" \notin DOMAIN last.content
              /\ \A db \in DOMAIN last.content.individual_results :
                    SourceFailed(db) <=> "error" \in DOMAIN last.content.individual_results[db]
        /\ (last.name = "unified_search" /\ ~last.tool.raised) =>
              /\ "error" \notin DOMAIN last.content
              /\ \A db \in DbNames :
                    SourceFailed(db) => db \notin DOMAIN last.content.results_by_database
              /\ \A db \in DOMAIN last.content.results_by_database :
                    "error" \notin DOMAIN last.content.results_by_database[db]
              /\ ServersDown =>
                    /\ last.content.total_matches = 0
                    /\ last.content.results_by_database = EmptyDict
        /\ last.name = "aggregate_stats" =>
              /\ ~last.tool.raised
              /\ "error" \notin DOMAIN last.content
              /\ ServersDown =>
                    \A db \in DOMAIN last.content.by_database :
                        last.content.by_database[db] = EmptyDict

\* unified_search with no reachable server: the search of every source
\* failed, and the mapping returned has no matches and no error field
C14_Witness ==
    /\ ToolDone
    /\ last.name = "unified_search"
    /\ ~last.tool.raised
    /\ ~last.propagated
    /\ ServersDown
    /\ last.content.total_matches = 0
    /\ last.content.results_by_database = EmptyDict
    /\ "error" \notin DOMAIN last.content

\* the query tool classified the question and the statement then failed
QueryFailedAtExecution ==
    /\ ToolDone
    /\ last.name = "query"
    /\ ~last.tool.raised
    /\ "detected_database" \in DOMAIN last.content
    /\ ~last.content.success

\* the sql or schema tool met an unreachable source, a rejected statement
\* or a source that is not configured
SingleSourceFailed ==
    /\ ToolDone
    /\ last.name \in {"sql", "schema"}
    /\ \/ last.tool.raised
       \/ ~CanConnect(Get(last.arguments, "database", "school_erp"))
       \/ /\ last.name = "sql"
          /\ last.env.outcome[Get(last.arguments, "database", "school_erp")].kind = "error"

\* C15 as stated: a classified query that fails at execution returns the
\* error together with the statement that was attempted, and a failing sql
\* or schema call returns the error in its result.
C15_AsStated ==
    /\ QueryFailedAtExecution =>
          /\ "error" \in DOMAIN last.content
          /\ "sql" \in DOMAIN last.content
          /\ last.content.sql =
                natural_to_sql(last.content.detected_database, last.arguments.question)
    /\ SingleSourceFailed => "error" \in DOMAIN last.content

\* a question classified as school_erp whose statement the server rejects:
\* the result has the server's error and no field for the statement
C15_Witness ==
    /\ QueryFailedAtExecution
    /\ last.content.detected_database = "school_erp"
    /\ CanConnect("school_erp")
    /\ last.env.outcome["school_erp"].kind = "error"
    /\ last.content.error = last.env.outcome["school_erp"].message
    /\ DOMAIN last.content =
          {"success", "question", "detected_database", "confidence", "error", "suggestion"}

-----------------------------------------------------------------------------
(* Properties of execute_sql (SpecExecute)                                  *)

ExecuteDone == last.op = "execute"

\* the call cannot succeed: the source cannot be reached, the server
\* rejects the statement, or the statement is None
ExecuteFails ==
    \/ ~CanConnect(last.database)
    \/ last.env.outcome[last.database].kind = "error"
    \/ last.query = NoneVal

\* C16 as stated: execute_sql never raises; for every source name,
\* configured or not, every statement and every connection state a failure
\* comes back as a result with an error field.
C16_AsStated ==
    ExecuteDone =>
        /\ ~last.raised
        /\ ExecuteFails => "error" \in DOMAIN last.result

\* C16 for configured sources: execute_sql returns a result, with the error
\* field exactly when the source cannot be reached, the statement is
\* rejected or the statement is None.
C16_ConfiguredNeverRaises ==
    (ExecuteDone /\ last.database \in DbNames) =>
        /\ ~last.raised
        /\ ExecuteFails <=> "error" \in DOMAIN last.result
        /\ ~ExecuteFails <=> Succeeded(last.result)

\* execute_sql on a name that is not configured: the KeyError of
\* DB_CONFIGS[db_name] left the method and no statement was sent
C16_Witness ==
    /\ ExecuteDone
    /\ last.database = "warehouse"
    /\ last.raised
    /\ last.sent = << >>

-----------------------------------------------------------------------------
(* Failures of the collaborators during detect_database (SpecClassify)      *)

\* the table phase / column phase of the classification ran
TablePhaseRan == last.lookups.consulted # {}
ColumnPhaseRan ==
    \A db \in DbNames :
        last.lookups.keyword_scores[db] = 0 /\ last.lookups.table_scores[db] = 0

\* the source has a cached list when the column phase starts
CachedForColumns(db) ==
    \/ db \in DOMAIN last.before
    \/ TablePhaseRan /\ connections[db] /\ db \notin last.env.show2

\* listing the tables of the source failed in the table phase: nothing
\* cached, and no connection or SHOW TABLES raised
ListingFailedInTablePhase(db) ==
    /\ TablePhaseRan
    /\ db \notin DOMAIN last.before
    /\ ~connections[db] \/ db \in last.env.show2

\* the column phase got no list for the source: no connection, or nothing
\* cached and SHOW TABLES raised
ListingFailedInColumnPhase(db) ==
    /\ ColumnPhaseRan
    /\ \/ ~connections[db]
       \/ ~CachedForColumns(db) /\ db \in last.env.show3

\* the positions in the described tables of the source where DESCRIBE raised
RaisedAt(db) ==
    {i \in 1..Len(last.lookups.described[db]) :
        DescribeRaises(db, last.lookups.described[db][i], schema, last.env.descFail)}

DescribeFailed(db) == ColumnPhaseRan /\ RaisedAt(db) # {}

\* a lookup on the source failed during the classification
LookupFailed(db) ==
    ListingFailedInTablePhase(db) \/ ListingFailedInColumnPhase(db) \/ DescribeFailed(db)

\* the column hits of the tables described before position n
HitsBefore(db, n) ==
    SumOver([i \in 1..(n - 1) |->
                ColumnHits(db, last.lookups.described[db][i], Lower(last.question))],
            1..(n - 1))

\* the same call when the source is connected, holds no table, has no
\* cached list and its server raises nothing
WithoutTablesOf(db) ==
    detect_database(last.question,
                    [connections EXCEPT ![db] = TRUE],
                    [d \in DOMAIN last.before \ {db} |-> last.before[d]],
                    [schema EXCEPT ![db] = << >>],
                    [show2    |-> last.env.show2 \ {db},
                     show3    |-> last.env.show3 \ {db},
                     descFail |-> last.env.descFail \ {db}])

OthersUnaffected(db) ==
    \A other \in DbNames \ {db} :
        last.result.scores[other] = WithoutTablesOf(db).result.scores[other]

\* C17 as stated: when listing the tables or describing the columns of a
\* source fails during detect_database (an error of the server or a missing
\* connection), the source counts as having no tables and no columns, the
\* other sources score as if it had none, and a classification is returned.
C17_AsStated ==
    Classified =>
        \A db \in DbNames :
            LookupFailed(db) =>
                /\ ListingFailedInTablePhase(db) => last.lookups.table_scores[db] = 0
                /\ (ListingFailedInColumnPhase(db) \/ DescribeFailed(db))
                      => last.lookups.column_scores[db] = 0
                /\ OthersUnaffected(db)
                /\ IsResolved(last.result) \/ IsAmbiguous(last.result)
                      \/ IsUnresolved(last.result)

\* C17, what the code does: a failed listing counts as an empty list for
\* that phase; a failed DESCRIBE ends the column scan of its source, which
\* keeps the hits of the tables described before it and never describes
\* the tables after it; the other sources score as if the failing source
\* had no tables, and a classification is returned.
C17_FailuresSwallowed ==
    Classified =>
        \A db \in DbNames :
            LookupFailed(db) =>
                /\ ListingFailedInTablePhase(db) =>
                      /\ last.lookups.table_lists[db] = << >>
                      /\ last.lookups.table_scores[db] = 0
                /\ ListingFailedInColumnPhase(db) =>
                      /\ last.lookups.described[db] = << >>
                      /\ last.lookups.column_scores[db] = 0
                /\ DescribeFailed(db) =>
                      /\ RaisedAt(db) = {Len(last.lookups.described[db])}
                      /\ last.lookups.column_scores[db]
                            = HitsBefore(db, Len(last.lookups.described[db]))
                /\ OthersUnaffected(db)
                /\ IsResolved(last.result) \/ IsAmbiguous(last.result)
                      \/ IsUnresolved(last.result)
                /\ DOMAIN last.result.scores = DbNames

\* chinook's cached list still names a table its server dropped: DESCRIBE
\* of the first table counted a column, the second raised, the third was
\* never described; chinook keeps the column score 1 where a source
\* exposing no columns scores 0, and sakila scored its own column
C17_Witness ==
    /\ Classified
    /\ DescribeFailed("chinook")
    /\ Len(last.lookups.described["chinook"]) = 2
    /\ Len(last.before["chinook"]) = 3
    /\ last.lookups.column_scores["chinook"] = 1
    /\ last.result.scores["sakila"] = 1

-----------------------------------------------------------------------------
(* Properties of get_all_tables (SpecTables)                                *)

\* the names the server lists, lowercased one by one
LoweredNames(db) == [i \in 1..Len(schema[db]) |-> Lower(schema[db][i])]

\* the fetch of a call can succeed: the source is connected and the server
\* answers SHOW TABLES
FetchSucceeds(call) == connections[call.db_name] /\ ~call.fails

\* one call of get_all_tables behaves as C18 says
CallAsSpecified(call) ==
    IF call.db_name \in DOMAIN call.before
    THEN /\ call.tables = call.before[call.db_name]
         /\ ~call.asked
         /\ call.after = call.before
    ELSE IF FetchSucceeds(call)
         THEN /\ call.asked
              /\ call.tables = LoweredNames(call.db_name)
              /\ call.after = Put(call.before, call.db_name, call.tables)
         ELSE /\ call.tables = << >>
              /\ call.after = call.before
              /\ call.db_name \notin DOMAIN call.after

\* C18: get_all_tables returns the cached list without asking the server
\* when the source is cached; otherwise it fetches, lowercases, caches and
\* returns the list; when the fetch fails (SHOW TABLES raises or the source
\* is not connected) it returns the empty list and caches nothing, so the
\* next call for that source fetches again.
C18_CacheOrFetch ==
    /\ \A i \in 1..Len(last.calls) : CallAsSpecified(last.calls[i])
    /\ \A i \in 1..(Len(last.calls) - 1) :
          LET first == last.calls[i]
              next  == last.calls[i + 1]
          IN  /\ next.before = first.after
              /\ (/\ next.db_name = first.db_name
                  /\ first.db_name \notin DOMAIN first.before
                  /\ ~FetchSucceeds(first)
                  /\ FetchSucceeds(next))
                    => next.asked /\ next.tables = LoweredNames(next.db_name)

\* a first call for chinook failed at SHOW TABLES and cached nothing; the
\* second call fetched the list, lowercased it and cached it
C18_Witness ==
    /\ last.op = "get_all_tables"
    /\ Len(last.calls) = 2
    /\ last.calls[1].db_name = "chinook" /\ last.calls[1].fails
    /\ last.calls[1].asked /\ last.calls[1].tables = << >>
    /\ "chinook" \notin DOMAIN last.calls[1].after
    /\ last.calls[2].db_name = "chinook" /\ last.calls[2].asked
    /\ last.calls[2].tables = << "album", "lyrics", "notes" >>
    /\ all_tables_cache["chinook"] = << "album", "lyrics", "notes" >>

-----------------------------------------------------------------------------
(* The keyword phase of detect_database (SpecClassify)                      *)

\* the distinct configured keywords of a source that occur in the lowercased
\* question
KeywordsFound(db) ==
    {keyword \in SeqToSet(database_keywords(db)) : Find(keyword, Lower(last.question))}

\* the positions of the source's keyword list whose keyword occurs in the
\* lowercased question
KeywordPositionsFound(db) ==
    {i \in 1..Len(database_keywords(db)) :
        Find(database_keywords(db)[i], Lower(last.question))}

\* C19 as stated: after the keyword phase the score of each source is the
\* number of its configured keywords, taken as a set, that occur in the
\* lowercased question; a question with exactly one keyword of a source
\* gives that source 1.
C19_AsStated ==
    Classified =>
        \A db \in DbNames :
            last.lookups.keyword_scores[db] = Cardinality(KeywordsFound(db))

\* C19 as the code counts: the score of each source is the number of
\* entries of its keyword list that occur in the lowercased question, an
\* entry listed twice counting twice.
C19_ListEntriesCounted ==
    Classified =>
        \A db \in DbNames :
            last.lookups.keyword_scores[db] = Cardinality(KeywordPositionsFound(db))

\* "top actor" holds one keyword of sakila, 'actor', and sakila scores 2
C19_Witness ==
    /\ Classified
    /\ last.question = "top actor"
    /\ KeywordsFound("sakila") = {"actor"}
    /\ last.lookups.keyword_scores["sakila"] = 2
    /\ last.result.scores["sakila"] = 2

-----------------------------------------------------------------------------
(* The column phase of detect_database (SpecColumns)                        *)

EndsWith(s, suffix) ==
    Len(s) >= Len(suffix) /\ SubSeq(s, Len(s) - Len(suffix) + 1, Len(s)) = suffix

RECURSIVE StripSuffixes(_)
\* a name without its trailing _id / _name suffixes
StripSuffixes(name) ==
    IF EndsWith(name, "_id") THEN StripSuffixes(SubSeq(name, 1, Len(name) - 3))
    ELSE IF EndsWith(name, "_name") THEN StripSuffixes(SubSeq(name, 1, Len(name) - 5))
    ELSE name

\* the table list the column phase had for a source
ListedFor(db) ==
    IF db \in DOMAIN all_tables_cache THEN all_tables_cache[db] ELSE << >>

\* the first ColumnTableLimit positions of that list
FirstPositions(db) ==
    1..(IF Len(ListedFor(db)) < ColumnTableLimit THEN Len(ListedFor(db))
        ELSE ColumnTableLimit)

\* the columns of a table whose name without trailing suffixes is longer
\* than 3 characters and occurs in the lowercased question
SuffixHits(db, table) ==
    Cardinality({i \in 1..Len(Columns(db, table)) :
        /\ Len(StripSuffixes(Lower(Columns(db, table)[i]))) > 3
        /\ Find(StripSuffixes(Lower(Columns(db, table)[i])), Lower(last.question))})

\* the columns of a table whose name with every "_id" and "_name" removed is
\* longer than 3 characters and occurs in the lowercased question
RemovalHits(db, table) ==
    Cardinality({i \in 1..Len(Columns(db, table)) :
        /\ Len(Remove(Remove(Lower(Columns(db, table)[i]), "_id"), "_name")) > 3
        /\ Find(Remove(Remove(Lower(Columns(db, table)[i]), "_id"), "_name"),
                Lower(last.question))})

\* the column phase ran on a connected source and no DESCRIBE raised
ColumnsSearched(db) ==
    /\ Classified
    /\ ColumnPhaseRan
    /\ connections[db]
    /\ RaisedAt(db) = {}

\* C20 as stated: in the column phase, for every connected source only its
\* first 10 tables are described, and the score added to the source is the
\* number of columns of those tables whose name, after stripping a trailing
\* _id/_name suffix, is longer than 3 characters and occurs in the question.
C20_AsStated ==
    \A db \in DbNames :
        ColumnsSearched(db) =>
            /\ last.lookups.described[db]
                  = [i \in FirstPositions(db) |-> ListedFor(db)[i]]
            /\ last.lookups.column_scores[db]
                  = SumOver([i \in FirstPositions(db) |-> SuffixHits(db, ListedFor(db)[i])],
                            FirstPositions(db))

\* C20 as the code counts: the first 10 tables are described and each of
\* their columns adds 1 when its lowercased name with every "_id" and
\* "_name" removed is longer than 3 characters and occurs in the question.
C20_RemovalCounted ==
    \A db \in DbNames :
        ColumnsSearched(db) =>
            /\ last.lookups.described[db]
                  = [i \in FirstPositions(db) |-> ListedFor(db)[i]]
            /\ last.lookups.column_scores[db]
                  = SumOver([i \in FirstPositions(db) |-> RemovalHits(db, ListedFor(db)[i])],
                            FirstPositions(db))
            /\ last.result.scores[db] = last.lookups.column_scores[db]

\* school_erp lists twelve tables; ten were described, and "count the
\* pupils" scored 1 for the column pupil_ids, whose name has no trailing
\* _id or _name
C20_Witness ==
    /\ ColumnsSearched("school_erp")
    /\ last.question = "count the pupils"
    /\ Len(ListedFor("school_erp")) = 12
    /\ Len(last.lookups.described["school_erp"]) = 10
    /\ last.lookups.column_scores["school_erp"] = 1
    /\ SuffixHits("school_erp", "sms_classes") = 0

\* ten of twelve tables described: "what occasion" counts the column of the
\* tenth table and not those of the eleventh and twelfth
C20_LimitReached ==
    /\ ColumnsSearched("school_erp")
    /\ last.question = "what occasion"
    /\ Len(ListedFor("school_erp")) = 12
    /\ last.lookups.described["school_erp"][10] = "sms_rooms"
    /\ last.lookups.column_scores["school_erp"] = 1

-----------------------------------------------------------------------------
(* The table cache over the lifetime of the process (SpecLifetime)          *)

\* C21: once the table list of a source has been cached, after any later
\* sequence of classifications, aggregate_stats and get_all_tables calls,
\* dropped connections, failing statements and schema changes the cache
\* still holds exactly that list for the source, and get_all_tables returns
\* it without asking the server.
C21_CacheNeverChanges ==
    /\ DOMAIN last.first = DOMAIN all_tables_cache
    /\ \A db \in DOMAIN last.first : all_tables_cache[db] = last.first[db]
    /\ (last.op = "get_all_tables" /\ last.cached) =>
          /\ last.tables = last.first[last.db_name]
          /\ ~last.asked

\* chinook's list was cached, its server then dropped the table Lyrics, and
\* a later get_all_tables call still returned the three cached names
C21_Witness ==
    /\ last.op = "get_all_tables"
    /\ last.db_name = "chinook"
    /\ last.cached
    /\ schema["chinook"] = AlteredSchema("chinook")
    /\ last.tables = << "album", "lyrics", "notes" >>
    /\ all_tables_cache["chinook"] = << "album", "lyrics", "notes" >>
    /\ ShowTables("chinook", schema) = << "album", "notes" >>

-----------------------------------------------------------------------------
(* Row caps of the statements of natural_to_sql (SpecSql)                   *)

\* a guard of the source held on the question: the statement is not the
\* source's help statement
GuardMatched ==
    /\ last.op = "natural_to_sql"
    /\ last.database \in DbNames
    /\ last.statement # HelpOf(last.database)

\* C22 as stated: every statement natural_to_sql returns for a guard match,
\* for every source, includes a row cap (a LIMIT clause).
C22_AsStated ==
    GuardMatched => Find("LIMIT", last.statement)

\* C22 as the code has it: the statements of a guard match carry LIMIT 50,
\* except the two student counts of school_erp and the category list of
\* sakila, which carry no LIMIT.
C22_CappedExceptThree ==
    GuardMatched =>
        IF last.statement \in {SchoolStudentsPerClass, SchoolStudentCount, SakilaCategories}
        THEN ~Find("LIMIT", last.statement)
        ELSE Find("LIMIT 50", last.statement)

\* sakila's category guard matched and its statement, which lists every row
\* of category, has no LIMIT
C22_Witness ==
    /\ GuardMatched
    /\ last.database = "sakila"
    /\ last.question = "category"
    /\ last.statement = SakilaCategories
    /\ Find("FROM category", last.statement)
    /\ ~Find("LIMIT", last.statement)

-----------------------------------------------------------------------------
(* Properties of handle_natural_query (SpecQuery)                           *)

QueryDone == last.op = "handle_natural_query"

\* the classification the call made
QueryDetection ==
    detect_database(last.question, last.before, last.cache_before, schema, last.env).result

\* the call resolved the question to school_erp and built a statement
OnSchool ==
    /\ QueryDone
    /\ QueryDetection.database = "school_erp"
    /\ last.result.detected_database = "school_erp"

Asked(text) == Find(text, Lower(last.question))

\* C23 as stated: for the school source every question containing
\* "students" together with "class" selects the count of students grouped by
\* class and section, and every question containing "students" without
\* "class" or "section" selects the total count.
C23_AsStated ==
    OnSchool =>
        /\ (Asked("students") /\ Asked("class"))
              => last.statement = SchoolStudentsPerClass
        /\ (Asked("students") /\ ~Asked("class") /\ ~Asked("section"))
              => last.statement = SchoolStudentCount

\* C23, amended: for the school source a question containing "how many
\* students" selects the grouped count when it also contains "class" or
\* "section" and the total count otherwise; without "how many students"
\* neither count is selected; "how many students are in class 10" is
\* resolved to school_erp and yields the grouped statement.
C23_HowManyStudents ==
    /\ OnSchool =>
          /\ (Asked("how many students") /\ (Asked("class") \/ Asked("section")))
                => /\ last.statement = SchoolStudentsPerClass
                   /\ Find("GROUP BY cs.class_number, cs.section", last.statement)
          /\ (Asked("how many students") /\ ~Asked("class") /\ ~Asked("section"))
                => last.statement = SchoolStudentCount
          /\ ~Asked("how many students")
                => last.statement \notin {SchoolStudentsPerClass, SchoolStudentCount}
    /\ (QueryDone /\ last.question = "how many students are in class 10")
          => OnSchool /\ last.statement = SchoolStudentsPerClass

\* "how many students are in class 10" was resolved to school_erp and the
\* grouped count was sent to its server
C23_Witness ==
    /\ OnSchool
    /\ last.question = "how many students are in class 10"
    /\ last.statement = SchoolStudentsPerClass
    /\ last.sent = << <<"school_erp", SchoolStudentsPerClass>> >>

\* the classification resolved the question to a source
QueryResolved == QueryDone /\ QueryDetection.database # NoneVal

\* the classification was Unresolved or Ambiguous
QueryUndecided == QueryDone /\ QueryDetection.database = NoneVal

\* the undecided call built and sent nothing and returned the classifier's
\* suggestion
ClarificationReturned ==
    /\ last.statement = NoneVal
    /\ last.sent = << >>
    /\ connections = last.before
    /\ last.result.success = FALSE
    /\ last.result.suggestion = QueryDetection.suggestion
    /\ last.result.error = QueryDetection.reasoning

\* C24 as stated: when the classification is Unresolved or Ambiguous no
\* statement is built or executed and the result has success = false with
\* the classifier's suggestion; when it is Resolved exactly one statement is
\* executed, and only against the resolved source.
C24_AsStated ==
    /\ QueryUndecided => ClarificationReturned
    /\ QueryResolved =>
          /\ Len(last.sent) = 1
          /\ last.sent[1][1] = QueryDetection.database

\* C24, amended: when the classification is Unresolved or Ambiguous no
\* statement is built or executed and the result has success = false with
\* the classifier's suggestion; when it is Resolved one statement is built
\* for the resolved source and sent to that source alone, once when the
\* source is connected or can be connected, and not at all otherwise, the
\* result then reporting the failed connection.
C24_OneStatementWhenReachable ==
    /\ QueryUndecided => ClarificationReturned
    /\ QueryResolved =>
          /\ last.statement = natural_to_sql(QueryDetection.database, last.question)
          /\ \A i \in 1..Len(last.sent) : last.sent[i][1] = QueryDetection.database
          /\ IF CanConnect(QueryDetection.database)
             THEN last.sent = << <<QueryDetection.database, last.statement>> >>
             ELSE /\ last.sent = << >>
                  /\ last.result.success = FALSE
                  /\ last.result.error
                        = "Database connection failed for " \o QueryDetection.database
          /\ \A db \in DbNames \ {QueryDetection.database} :
                connections[db] = last.before[db]

\* a question resolved to sakila while sakila's connection is gone and its
\* server refuses connections: the statement was built and never sent
C24_Witness ==
    /\ QueryResolved
    /\ QueryDetection.database = "sakila"
    /\ ~CanConnect("sakila")
    /\ last.statement = SakilaActors
    /\ last.sent = << >>
    /\ last.result.detected_database = "sakila"

\* an ambiguous question: nothing built, nothing sent, the tied sources
\* suggested
C24_Clarified ==
    /\ QueryUndecided
    /\ IsAmbiguous(QueryDetection)
    /\ ClarificationReturned
    /\ last.env.up = DbNames

-----------------------------------------------------------------------------
(* The score vector of detect_database (SpecClassify)                       *)

\* the sources a score vector gives a non-zero score
Scored(scores) == {db \in DbNames : scores[db] # 0}

\* C25: every result of detect_database has a score vector with one
\* non-negative entry per configured source, and its non-zero entries come
\* from one phase only: all from keyword hits, or all from table-name hits
\* (each a multiple of 5), or all from column hits.
C25_SinglePhaseScores ==
    Classified =>
        /\ "scores" \in DOMAIN last.result
        /\ DOMAIN last.result.scores = DbNames
        /\ \A db \in DbNames : last.result.scores[db] \in Nat
        /\ \/ /\ last.result.scores = last.lookups.keyword_scores
              /\ Scored(last.lookups.table_scores) = {}
              /\ Scored(last.lookups.column_scores) = {}
           \/ /\ last.result.scores = last.lookups.table_scores
              /\ Scored(last.lookups.keyword_scores) = {}
              /\ Scored(last.lookups.column_scores) = {}
              /\ \A db \in DbNames : last.result.scores[db] % 5 = 0
           \/ /\ last.result.scores = last.lookups.column_scores
              /\ Scored(last.lookups.keyword_scores) = {}
              /\ Scored(last.lookups.table_scores) = {}

\* a question naming two tables of chinook and one of sakila, and the
\* column lyrics_id: the scores are table scores only, 10 and 5
C25_Witness ==
    /\ Classified
    /\ last.question = "find lyrics and notes"
    /\ last.result.scores = [school_erp |-> 0, chinook |-> 10, sakila |-> 5]
    /\ last.lookups.table_scores = last.result.scores
    /\ ColumnMatches("lyrics_id", Lower(last.question))
    /\ last.lookups.described["chinook"] = << >>

-----------------------------------------------------------------------------
(* The summary of the cross-database query (SpecCross)                      *)

\* the queried sources whose statement was executed and returned at least
\* one row
ReturnedRows ==
    {db \in SeqToSet(last.selected) :
        /\ CanConnect(db)
        /\ last.env.outcome[db].kind = "rows"
        /\ Len(last.env.outcome[db].rows) >= 1}

\* the sources named by the summary, in its order
SummarySources ==
    [i \in 1..Len(last.result.combined_analysis.summary) |->
        last.result.combined_analysis.summary[i].database]

\* C26: combined_analysis.summary has an entry for exactly the queried
\* sources whose execution succeeded with at least one row, one each, with
\* the number of rows found; a source that failed or returned no rows has no
\* entry and adds nothing to totals (the analysis is the analysis of the
\* other sources alone), yet it appears in individual_results.
C26_SummaryOfSourcesWithRows ==
    (CrossDone /\ ~last.raised) =>
        /\ SeqToSet(SummarySources) = ReturnedRows
        /\ Len(SummarySources) = Cardinality(ReturnedRows)
        /\ \A i \in 1..Len(SummarySources) :
              /\ last.result.combined_analysis.summary[i].records_found
                    = Len(last.env.outcome[SummarySources[i]].rows)
              /\ last.result.combined_analysis.summary[i].description
                    = Description(SummarySources[i])
        /\ DOMAIN last.result.individual_results = SeqToSet(last.selected)
        /\ last.result.combined_analysis
              = _analyze_cross_db_results(
                    [db \in ReturnedRows |-> last.result.individual_results[db]],
                    SummarySources)
        /\ ReturnedRows = {} => last.result.combined_analysis.totals = EmptyDict

\* the three sources were queried: school_erp returned no rows and has no
\* summary entry, chinook and sakila have one each, and id sums 7 + 8 + 1
C26_Witness ==
    /\ CrossDone
    /\ ~last.raised
    /\ SeqToSet(last.selected) = DbNames
    /\ CanConnect("school_erp")
    /\ last.env.outcome["school_erp"] = RowsOutcome(<< >>)
    /\ last.result.individual_results["school_erp"].row_count = 0
    /\ SummarySources = << "chinook", "sakila" >>
    /\ last.result.combined_analysis.summary[1].records_found = 2
    /\ last.result.combined_analysis.totals["id"] = FloatValue(32)

\* a queried source whose statement failed: it has an error entry in
\* individual_results and no summary entry, while another source has one
C26_FailedSourceLeftOut ==
    /\ CrossDone
    /\ ~last.raised
    /\ "chinook" \in SeqToSet(last.selected)
    /\ "error" \in DOMAIN last.result.individual_results["chinook"]
    /\ SummarySources = << "sakila" >>

=============================================================================
